---- MODULE Spec2Model ----
(***************************************************************************)
(* A model of disasyncoro3.py: the per-peer request pipeline (_Peer), the  *)
(* UDP/TCP discovery handshake, the inbound dispatcher (_tcp_task) and the *)
(* sync/async reply glue (_sync_reply, locate) of the AsynCoro scheduler.  *)
(***************************************************************************)
EXTENDS Integers, Sequences, FiniteSets, TLC

VARIABLES
  up,          \* the instances that run (their servers listen)
  secret,      \* secret[i]     : AsynCoro._secret of instance i
  signature,   \* signature[i]  : AsynCoro._signature
  version,     \* version[i]    : __version__ of the code instance i runs
  rci_of,      \* rci_of[i]     : AsynCoro._rcis, a dict name -> RCI (its index in RCIs[i])
  RCIs,        \* RCIs[i]       : the RCI objects made in i's process, by identity
  stream_peers,\* stream_peers[i] : AsynCoro._stream_peers, a set of (addr, port)
  max_file_size,\* max_file_size[i] : AsynCoro.max_file_size, 0 for None
  files,       \* files[i]      : the regular files of i's host, path -> stat
  peers,       \* peers[i]      : _Peer.peers of i's process, a dict (addr, port) -> _Peer
  objs,        \* the _NetRequest objects created so far, by identity (id(req))
  requests,    \* requests[i]   : AsynCoro._requests, the ids of pending async requests
  calls,       \* the user coroutines inside _sync_reply / locate, by their request
  tcp,         \* TCP connections: both byte streams and the _tcp_task serving each
  udp,         \* UDP ping datagrams not yet received
  hist         \* history: what was accepted, transmitted, dispatched, lost

vars == <<up, secret, signature, version, rci_of, RCIs, stream_peers, max_file_size,
          files, peers, objs,
          requests, calls, tcp, udp, hist>>

\* what no step of the protocol changes: the configuration and the registries
settings == <<up, secret, signature, version, rci_of, RCIs, stream_peers, max_file_size>>
config == <<settings, files>>

----------------------------------------------------------------------------
(* Bounds of the model *)

\* how many _NetRequest objects user coroutines create in one behaviour
MaxReqs == 2
\* how many TCP connections exist at the same time
MaxConns == 3
\* the calls of locate
MaxLocates == 1
\* the messages an outside party sends
MaxInject == 2

----------------------------------------------------------------------------
(* Values *)

\* Python's None where a string of characters is expected (secret, signature, auth)
NoneStr == <<"None">>

\* Location(addr, port); NoLoc stands for a src/dst that is None
Location(addr, port) == [addr |-> addr, port |-> port]
NoLoc == [addr |-> "", port |-> 0]

\* reply values, all of one shape so that any two can be compared
None == [kind |-> "None", n |-> 0, name |-> "", loc |-> NoLoc]
IntVal(k) == [kind |-> "int", n |-> k, name |-> "", loc |-> NoLoc]
\* what the peer answered to the request object r (the value itself is opaque)
\* the bytes b'ack' and b'nak'
Bytes(b) == [kind |-> "bytes", n |-> 0, name |-> b, loc |-> NoLoc]
PeerReply(r) == [kind |-> "reply", n |-> r, name |-> "", loc |-> NoLoc]
\* a pickled RCI: RCI.__getstate__ keeps _name and _location
RciHandle(name, loc) == [kind |-> "RCI", n |-> 0, name |-> name, loc |-> loc]

\* a pickled Coro: its id, its name and the location of its scheduler
CoroHandle(n, name, loc) == [kind |-> "Coro", n |-> n, name |-> name, loc |-> loc]
\* a pickled Exception, with its text
Exc(text) == [kind |-> "Exception", n |-> 0, name |-> text, loc |-> NoLoc]

\* a pickled Location
LocVal(l) == [kind |-> "Location", n |-> 0, name |-> "", loc |-> l]

\* os.stat_result, of which st_size, st_atime, st_mtime and the mode bits of
\* st_mode are looked at
Stat(size, atime, mtime, mode) ==
  [st_size |-> size, st_atime |-> atime, st_mtime |-> mtime, st_mode |-> mode]

\* the os.stat_result of a file last read when it was written
StatBuf(size, mtime, mode) == Stat(size, mtime, mtime, mode)
NoStat == StatBuf(0, 0, "")

\* a pickled os.stat_result
StatResult(sbuf) ==
  [kind |-> "stat_result", st_size |-> sbuf.st_size, st_atime |-> sbuf.st_atime,
   st_mtime |-> sbuf.st_mtime, st_mode |-> sbuf.st_mode]

\* kwargs of a request, all of one shape; file and dest_path are strings,
\* kept as the sequences of their characters
NoKwargs ==
  [name |-> "", peer |-> NoLoc, signature |-> NoneStr, version |-> "",
   file |-> <<>>, dest_path |-> NoneStr, stat_buf |-> NoStat, overwrite |-> FALSE]

Range(s) == {s[k] : k \in DOMAIN s}

\* an empty dict
EmptyDict == [x \in {} |-> x]

----------------------------------------------------------------------------
(* Configuration: the instances and where they listen *)

Inst == {"A", "B", "C"}
LocOf ==
  [i \in Inst |-> CASE i = "A" -> Location("h1", 1)
                    [] i = "B" -> Location("h2", 1)
                    [] i = "C" -> Location("h3", 1)]
\* a location of the network where no instance listens
LocX == Location("h4", 1)
\* the second port of A's host, for another asyncoro of that host
LocD == Location("h1", 2)
Locs == {LocOf[i] : i \in Inst} \cup {LocX, LocD}
\* AsynCoro._name of each instance
NameOf == [i \in Inst |-> i]
\* the instance that listens at a location
InstAt(l) == CHOOSE i \in Inst : LocOf[i] = l

----------------------------------------------------------------------------
(* Paths: a path is a string, kept as the sequence of its characters       *)

\* os.sep
Sep == "/"

\* the components of the path p: the runs of characters between separators,
\* empty ones included
RECURSIVE split(_)
split(p) ==
  IF \A k \in DOMAIN p : p[k] # Sep THEN <<p>>
  ELSE LET k == CHOOSE m \in DOMAIN p : p[m] = Sep /\ \A y \in 1..(m - 1) : p[y] # Sep IN
         <<SubSeq(p, 1, k - 1)>> \o split(SubSeq(p, k + 1, Len(p)))

\* os.path.basename(p): what follows the last separator
basename(p) == split(p)[Len(split(p))]

\* os.path.join(a, b): b alone when it is absolute, else a and b with one
\* separator between them unless a is empty or ends with one
join(a, b) ==
  IF b # <<>> /\ b[1] = Sep THEN b
  ELSE IF a = <<>> \/ a[Len(a)] = Sep THEN a \o b
  ELSE a \o <<Sep>> \o b

\* the components comps of an absolute path with "" and "." left out and
\* each ".." taking back the component before it, on top of the stack done
RECURSIVE resolve(_, _)
resolve(comps, done) ==
  IF comps = <<>> THEN done
  ELSE LET h == Head(comps) IN
         IF h = <<>> \/ h = <<".">> THEN resolve(Tail(comps), done)
         ELSE IF h = <<".", ".">>
         THEN resolve(Tail(comps), IF done = <<>> THEN done
                                   ELSE SubSeq(done, 1, Len(done) - 1))
         ELSE resolve(Tail(comps), Append(done, h))

\* the string of an absolute path made of the components comps
RECURSIVE unsplit(_)
unsplit(comps) ==
  IF comps = <<>> THEN <<>> ELSE <<Sep>> \o Head(comps) \o unsplit(Tail(comps))

\* os.path.abspath(p) for an absolute p: os.path.normpath(p)
abspath(p) ==
  IF resolve(split(p), <<>>) = <<>> THEN <<Sep>> ELSE unsplit(resolve(split(p), <<>>))

\* s.startswith(prefix), character by character
startswith(s, prefix) ==
  Len(s) >= Len(prefix) /\ SubSeq(s, 1, Len(prefix)) = prefix

\* AsynCoro.dest_path_prefix, the same at every instance:
\* os.path.abspath(dest_path_prefix)
dest_path_prefix == <<Sep, "p">>

\* no limit on the size of files, and no files
NoFiles ==
  /\ max_file_size = [i \in Inst |-> 0]
  /\ files = [i \in Inst |-> EmptyDict]

----------------------------------------------------------------------------
(* RCI objects and the registry AsynCoro._rcis *)

\* RCI.__init__(method, name): _method is a generator function or some other
\* callable; "" stands for a _name that is None
RCI(name, location, method) == [_name |-> name, _location |-> location, _method |-> method]

\* the names registered at each instance: the keys of _rcis
rcis == [i \in Inst |-> DOMAIN rci_of[i]]

\* the state in which each instance i has registered one RCI of its own for
\* the name in names[i], if there is one
Registered(names) ==
  /\ RCIs = [i \in Inst |->
               IF names[i] = {} THEN <<>>
               ELSE <<RCI(CHOOSE n \in names[i] : TRUE, LocOf[i], "generator")>>]
  /\ rci_of = [i \in Inst |-> [n \in names[i] |-> 1]]

----------------------------------------------------------------------------
(* _NetRequest *)

\* _NetRequest.__init__: id, event and reply start as None (id 0 stands for None)
NetRequest(name, kwargs, src, dst, auth, timeout) ==
  [name |-> name, kwargs |-> kwargs, src |-> src, dst |-> dst, auth |-> auth,
   id |-> 0, event |-> "None", reply |-> None, timeout |-> timeout]

\* serialize(req): __getstate__ keeps every field but the event. obj is history:
\* the identity of the object the bytes were made from.
Serialize(req, r) ==
  [name |-> req.name, kwargs |-> req.kwargs, src |-> req.src, dst |-> req.dst,
   auth |-> req.auth, id |-> req.id, reply |-> req.reply, timeout |-> req.timeout,
   obj |-> r]

\* the locals of a task that has not read a message yet
NoMsg == Serialize(NetRequest("", NoKwargs, NoLoc, NoLoc, NoneStr, "None"), 0)

\* a mutant of EventSet: the event is left as it is
EventLeft(os, r) == os

\* "if req.event: req.event.set()" on the object r
EventSet(os, r) ==
  IF os[r].event = "None" THEN os ELSE [os EXCEPT ![r].event = "set"]

----------------------------------------------------------------------------
(* TCP connections.  tcp[c] holds the two byte streams of connection c     *)
(* (c2s, s2c), which ends are open, and the state of the _tcp_task that    *)
(* serves it: its position pc and its locals.                              *)

FreeConns == (1..MaxConns) \ DOMAIN tcp

\* a connection just made; req, req_peer, auth_code, sock and pending are
\* locals of the _tcp_task that serves it
NewConn(from, to) ==
  [from |-> from, to |-> to, c2s |-> <<>>, s2c |-> <<>>, copen |-> TRUE, sopen |-> TRUE,
   pc |-> "recv_msg", req |-> NoMsg, req_peer |-> NoLoc, auth_code |-> NoneStr,
   sock |-> 0, pending |-> <<>>]

Drop(t, c) == [x \in DOMAIN t \ {c} |-> t[x]]

\* the client's sock.close() / conn.close(). A task that has nothing left to read
\* finds the connection closed at its recv_msg and ends: the record goes at once.
\* Otherwise the task goes on with what it holds, and its replies go nowhere.
CloseClient(t, c) ==
  IF c \notin DOMAIN t THEN t
  ELSE IF ~t[c].sopen \/ (t[c].c2s = <<>> /\ t[c].pc = "recv_msg") THEN Drop(t, c)
  ELSE [t EXCEPT ![c].copen = FALSE, ![c].s2c = <<>>]

\* the server's conn.close() at the end of _tcp_task
CloseServer(t, c) ==
  IF ~t[c].copen THEN Drop(t, c) ELSE [t EXCEPT ![c].sopen = FALSE, ![c].c2s = <<>>]

\* a connection made for one message: connect, send_msg(msg), close
OneShot(from, to, msg) ==
  [NewConn(from, to) EXCEPT !.c2s = <<msg>>, !.copen = FALSE]

\* the connection a connect() of this step gets
NextConn == CHOOSE c \in FreeConns : \A d \in FreeConns : c <= d

\* a server accepts connections at l
Listening(l) == \E j \in up : LocOf[j] = l

\* conn.send_msg(v) of the task that serves c; nobody reads it once the client
\* has closed
Send(t, c, v) == IF t[c].copen THEN [t EXCEPT ![c].s2c = Append(@, v)] ELSE t

\* back at the top of the task's loop: it waits for the next message, and ends
\* at once when the client has closed and nothing is left to read
TaskLoop(t, c) ==
  IF ~t[c].copen /\ t[c].c2s = <<>> THEN Drop(t, c)
  ELSE [t EXCEPT ![c].pc = "recv_msg", ![c].req = NoMsg, ![c].req_peer = NoLoc,
                 ![c].auth_code = NoneStr, ![c].sock = 0, ![c].pending = <<>>]

----------------------------------------------------------------------------
(* _Peer *)

\* _Peer.__init__: the worker req_coro is created, not yet run
Peer(auth) ==
  [auth |-> auth, stream |-> FALSE, conn |-> 0, reqs |-> <<>>, reqs_pending |-> FALSE,
   pc |-> "start", req |-> 0]

\* a mutant of send_req: the request is queued and reqs_pending left alone
send_req_unsignalled(ps, i, dst, r) ==
  IF dst \notin DOMAIN ps[i] THEN ps
  ELSE [ps EXCEPT ![i][dst].reqs = Append(@, r)]

\* a mutant of send_req: the request is put at the head of the queue
send_req_front(ps, i, dst, r) ==
  IF dst \notin DOMAIN ps[i] THEN ps
  ELSE [ps EXCEPT ![i][dst].reqs = <<r>> \o @, ![i][dst].reqs_pending = TRUE]

\* _Peer.send_req(req): the peers dict after the call, for the object r sent to dst
send_req(ps, i, dst, r) ==
  IF dst \notin DOMAIN ps[i] THEN ps
  ELSE [ps EXCEPT ![i][dst].reqs = Append(@, r), ![i][dst].reqs_pending = TRUE]

\* its return value
send_req_ret(ps, i, dst) == IF dst \notin DOMAIN ps[i] THEN -1 ELSE 0

\* history of send_req: the requests accepted for the peer at dst, in order
send_req_hist(h, ps, i, dst, r) ==
  IF dst \notin DOMAIN ps[i] THEN h
  ELSE [h EXCEPT !.accepted[i][dst] = Append(@, r)]

\* a mutant of popleft: deque.pop() takes the newest request
pop_right(q) == [item |-> q[Len(q)], rest |-> SubSeq(q, 1, Len(q) - 1)]

\* self.reqs.popleft()
popleft(q) == [item |-> Head(q), rest |-> Tail(q)]

\* a mutant of req_proc_loop: the connection is dropped when the queue is
\* empty, whatever the stream flag says
req_proc_loop_close(p) ==
  IF p.reqs = <<>>
  THEN [p EXCEPT !.conn = 0, !.reqs_pending = FALSE, !.pc = "wait", !.req = 0]
  ELSE [p EXCEPT !.reqs = popleft(p.reqs).rest, !.req = popleft(p.reqs).item,
                 !.pc = IF p.conn = 0 THEN "connect" ELSE "send_msg"]

\* a mutant of req_proc_loop: the connection is kept when the queue is empty
req_proc_loop_keep(p) ==
  IF p.reqs = <<>>
  THEN [p EXCEPT !.reqs_pending = FALSE, !.pc = "wait", !.req = 0]
  ELSE [p EXCEPT !.reqs = popleft(p.reqs).rest, !.req = popleft(p.reqs).item,
                 !.pc = IF p.conn = 0 THEN "connect" ELSE "send_msg"]

\* req_proc from the top of its loop to its next yield, as the _Peer p:
\* with nothing queued it drops the connection of a non-streaming peer, clears
\* reqs_pending and waits; otherwise it pops the head and either starts to
\* connect or, over the connection it still holds, to send.
req_proc_loop(p) ==
  IF p.reqs = <<>>
  THEN [p EXCEPT !.conn = IF ~p.stream THEN 0 ELSE @, !.reqs_pending = FALSE,
                 !.pc = "wait", !.req = 0]
  ELSE [p EXCEPT !.reqs = popleft(p.reqs).rest, !.req = popleft(p.reqs).item,
                 !.pc = IF p.conn = 0 THEN "connect" ELSE "send_msg"]

\* the connections after that stretch: "if not self.stream and self.conn: self.conn.close()"
req_proc_loop_tcp(p, t) ==
  IF p.reqs = <<>> /\ ~p.stream /\ p.conn # 0 THEN CloseClient(t, p.conn) ELSE t

\* the request objects after it: "req.auth = self.auth" when the connection is reused
req_proc_loop_objs(p, os) ==
  IF p.reqs # <<>> /\ p.conn # 0
  THEN [os EXCEPT ![popleft(p.reqs).item].auth = p.auth]
  ELSE os

\* a mutant of req_proc_except: the reply is cleared and the event left alone
req_proc_except_silent(os, r) == [os EXCEPT ![r].reply = None]

\* what the except and finally clauses of req_proc do to the request in hand:
\* "req.reply = None" and "if req.event: req.event.set()"
req_proc_except(os, r) == EventSet([os EXCEPT ![r].reply = None], r)

\* the positions of req_proc inside its try blocks: a request is in hand
InFlight == {"connect", "send_msg", "recv_msg"}

\* req_coro.terminate() of the _Peer p: the worker is resumed with an exception
\* at the yield it waits in; inside a try block that runs the except and
\* finally clauses for the request in hand
coro_terminate(p, os) == IF p.pc \in InFlight THEN req_proc_except(os, p.req) ELSE os

\* the worker's first run
req_proc_start(i, l) ==
  /\ l \in DOMAIN peers[i]
  /\ peers[i][l].pc = "start"
  /\ LET p == peers[i][l] IN
       /\ peers' = [peers EXCEPT ![i][l] = req_proc_loop(p)]
       /\ tcp' = req_proc_loop_tcp(p, tcp)
       /\ objs' = req_proc_loop_objs(p, objs)
  /\ UNCHANGED <<config, requests, calls, udp, hist>>

\* "yield self.reqs_pending.wait()" returns once reqs_pending is set; the pop
\* that follows raises IndexError on an empty deque, which ends the worker
req_proc_wake(i, l) ==
  /\ l \in DOMAIN peers[i]
  /\ peers[i][l].pc = "wait"
  /\ peers[i][l].reqs_pending
  /\ LET p == peers[i][l] IN
       IF p.reqs = <<>>
       THEN /\ peers' = [peers EXCEPT ![i][l].pc = "raised"]
            /\ UNCHANGED <<tcp, objs>>
       ELSE /\ peers' = [peers EXCEPT ![i][l] = req_proc_loop(p)]
            /\ tcp' = req_proc_loop_tcp(p, tcp)
            /\ objs' = req_proc_loop_objs(p, objs)
  /\ UNCHANGED <<config, requests, calls, udp, hist>>

\* "yield self.conn.connect(...)" succeeds; then req.auth = self.auth and the
\* request is serialised for send_msg
req_proc_connected(i, l) ==
  /\ l \in DOMAIN peers[i]
  /\ peers[i][l].pc = "connect"
  /\ \E c \in FreeConns :
       /\ \A d \in FreeConns : c <= d
       /\ tcp' = (c :> NewConn(i, l)) @@ tcp
       /\ peers' = [peers EXCEPT ![i][l].conn = c, ![i][l].pc = "send_msg"]
  /\ objs' = [objs EXCEPT ![peers[i][l].req].auth = peers[i][l].auth]
  /\ hist' = [hist EXCEPT !.carried[i][l] = <<>>]
  /\ UNCHANGED <<config, requests, calls, udp>>

\* connect raises: conn = None, req.reply = None, the event is set, continue
req_proc_connect_failed(i, l) ==
  /\ l \in DOMAIN peers[i]
  /\ peers[i][l].pc = "connect"
  /\ LET p == [peers[i][l] EXCEPT !.conn = 0]
         os == req_proc_except(objs, p.req) IN
       /\ peers' = [peers EXCEPT ![i][l] = req_proc_loop(p)]
       /\ tcp' = req_proc_loop_tcp(p, tcp)
       /\ objs' = req_proc_loop_objs(p, os)
  /\ hist' = [hist EXCEPT !.txerr[i][l] = TRUE, !.failed = @ \cup {peers[i][l].req}]
  /\ UNCHANGED <<config, requests, calls, udp>>

\* "yield self.conn.send_msg(serialize(req))" completes: the bytes are on
\* their way to the peer's _tcp_task
req_proc_sent(i, l) ==
  /\ l \in DOMAIN peers[i]
  /\ peers[i][l].pc = "send_msg"
  /\ LET p == peers[i][l] IN
       /\ tcp' = IF tcp[p.conn].sopen
                 THEN [tcp EXCEPT ![p.conn].c2s = Append(@, Serialize(objs[p.req], p.req))]
                 ELSE tcp
       /\ peers' = [peers EXCEPT ![i][l].pc = "recv_msg"]
       /\ hist' = [hist EXCEPT !.transmitted[i][l] = Append(@, p.req),
                                !.carried[i][l] = Append(@, p.req)]
  /\ UNCHANGED <<config, objs, requests, calls, udp>>

\* a mutant of req_proc_failed: the requests still queued are thrown away
req_proc_failed_flush(i, l) ==
  LET p == [peers[i][l] EXCEPT !.conn = 0, !.reqs = <<>>]
      os == req_proc_except(objs, p.req) IN
    /\ peers' = [peers EXCEPT ![i][l] = req_proc_loop(p)]
    /\ tcp' = req_proc_loop_tcp(p, CloseClient(tcp, peers[i][l].conn))
    /\ objs' = req_proc_loop_objs(p, os)
    /\ hist' = [hist EXCEPT !.txerr[i][l] = TRUE, !.failed = @ \cup {p.req}]

\* a mutant of req_proc_failed: the connection is neither closed nor given up
req_proc_failed_open(i, l) ==
  LET p == peers[i][l]
      os == req_proc_except(objs, p.req) IN
    /\ peers' = [peers EXCEPT ![i][l] = req_proc_loop(p)]
    /\ tcp' = req_proc_loop_tcp(p, tcp)
    /\ objs' = req_proc_loop_objs(p, os)
    /\ hist' = [hist EXCEPT !.txerr[i][l] = TRUE, !.failed = @ \cup {p.req}]

\* the except clauses of req_proc: conn.close(), conn = None, req.reply = None;
\* finally the event is set, and the loop goes on
req_proc_failed(i, l) ==
  LET p == [peers[i][l] EXCEPT !.conn = 0]
      os == req_proc_except(objs, p.req) IN
    /\ peers' = [peers EXCEPT ![i][l] = req_proc_loop(p)]
    /\ tcp' = req_proc_loop_tcp(p, CloseClient(tcp, peers[i][l].conn))
    /\ objs' = req_proc_loop_objs(p, os)
    /\ hist' = [hist EXCEPT !.txerr[i][l] = TRUE, !.failed = @ \cup {p.req}]

\* send_msg raises (socket.error, socket.timeout or anything else)
req_proc_send_failed(i, l) ==
  /\ l \in DOMAIN peers[i]
  /\ peers[i][l].pc = "send_msg"
  /\ req_proc_failed(i, l)
  /\ UNCHANGED <<config, requests, calls, udp>>

\* "reply = yield self.conn.recv_msg()" returns the next message of the
\* connection: req.reply = unserialize(reply); finally the event is set
req_proc_reply(i, l) ==
  /\ l \in DOMAIN peers[i]
  /\ peers[i][l].pc = "recv_msg"
  /\ tcp[peers[i][l].conn].s2c # <<>>
  /\ LET p == peers[i][l]
         t == [tcp EXCEPT ![p.conn].s2c = Tail(@)]
         os == EventSet([objs EXCEPT ![p.req].reply = Head(tcp[p.conn].s2c)], p.req) IN
       /\ peers' = [peers EXCEPT ![i][l] = req_proc_loop(p)]
       /\ tcp' = req_proc_loop_tcp(p, t)
       /\ objs' = req_proc_loop_objs(p, os)
  /\ UNCHANGED <<config, requests, calls, udp, hist>>

\* recv_msg raises: the peer hung up, or the socket timed out
req_proc_recv_failed(i, l) ==
  /\ l \in DOMAIN peers[i]
  /\ peers[i][l].pc = "recv_msg"
  /\ req_proc_failed(i, l)
  /\ UNCHANGED <<config, requests, calls, udp>>

\* a mutant of peers_pop: every entry goes
peers_pop_all(ps, i, l) == [ps EXCEPT ![i] = EmptyDict]

\* _Peer.peers.pop((location.addr, location.port), None): the dict afterwards
peers_pop(ps, i, l) == [ps EXCEPT ![i] = Drop(@, l)]

\* a mutant of Peer_remove: the entry is popped and its worker runs on
Peer_remove_pop(st, i, l) ==
  IF l \notin DOMAIN st.peers[i] THEN st
  ELSE [st EXCEPT !.peers = peers_pop(st.peers, i, l)]

\* _Peer.remove(location) by instance i, on the state st (peers, objs, tcp,
\* hist): the entry is popped and its worker terminated. A worker terminated
\* inside its try blocks (connect, send_msg, recv_msg) runs its bare except and
\* finally clauses: req.reply = None and the event is set. The requests still
\* queued go with the _Peer. Nothing happens when there is no such entry.
Peer_remove(st, i, l) ==
  IF l \notin DOMAIN st.peers[i] THEN st
  ELSE LET p == st.peers[i][l] IN
         [peers |-> peers_pop(st.peers, i, l),
          objs |-> coro_terminate(p, st.objs),
          tcp |-> CloseClient(st.tcp, p.conn),
          hist |-> IF p.pc \in InFlight
                   THEN [st.hist EXCEPT !.failed = @ \cup {p.req},
                                        !.aborted = @ \cup {p.req},
                                        !.terminated[i][l] = @ + 1]
                   ELSE [st.hist EXCEPT !.terminated[i][l] = @ + 1]]

\* remove(location) called for a peer that is in the table
remove(i, l) ==
  /\ l \in DOMAIN peers[i]
  /\ LET st == Peer_remove([peers |-> peers, objs |-> objs, tcp |-> tcp, hist |-> hist],
                           i, l) IN
       /\ peers' = st.peers
       /\ objs' = st.objs
       /\ tcp' = st.tcp
       /\ hist' = st.hist
  /\ UNCHANGED <<config, requests, calls, udp>>

----------------------------------------------------------------------------
(* The sync reply glue and the public operations built on it *)

\* the public operations that go through _sync_reply, with the timeout each
\* may pass: RCI.__call__ always passes 2, the others what their caller gave
SyncOps == {"del_file", "locate_rci", "run_rci", "sync_reply"}

\* _sync_reply(req, alarm_value) up to its yield: the event is created, the
\* request is handed to send_req (whose result is not looked at), and the
\* caller waits on the event for req.timeout
sync_reply_req(i, request, alarm) ==
  /\ Len(objs) < MaxReqs
  /\ LET r == Len(objs) + 1
         dst == request.dst
         req == [request EXCEPT !.event = "clear"] IN
       /\ objs' = Append(objs, req)
       /\ peers' = send_req(peers, i, dst, r)
       /\ hist' = send_req_hist(hist, peers, i, dst, r)
       /\ calls' = (r :> [inst |-> i, op |-> request.name, alarm |-> alarm, st |-> "wait",
                          ret |-> send_req_ret(peers, i, dst),
                          timedout |-> FALSE, result |-> None]) @@ calls
  /\ UNCHANGED <<config, requests, tcp, udp>>

\* _sync_reply for a request named op that carries no kwargs
sync_reply(i, op, dst, timeout, alarm) ==
  sync_reply_req(i, NetRequest(op, NoKwargs, NoLoc, dst, NoneStr, timeout), alarm)

\* RCI.__call__ up to its yield, for the RCI (name, location): a run_rci
\* request to the RCI's location with a timeout of 2, through _sync_reply
\* with no alarm value
RCI_call(i, name, location) ==
  sync_reply_req(i, NetRequest("run_rci", [NoKwargs EXCEPT !.name = name], NoLoc,
                               location, NoneStr, "2"), None)

\* a mutant of RCI_call_result: whatever is not a Coro is handed back as None
RCI_call_result_quiet(reply) ==
  IF reply.kind = "Coro" THEN [raised |-> FALSE, value |-> reply]
  ELSE [raised |-> FALSE, value |-> None]

\* RCI.__call__ after _sync_reply gave reply: a Coro is returned, None is
\* returned, anything else is raised as Exception(reply)
RCI_call_result(reply) ==
  IF reply.kind = "Coro" THEN [raised |-> FALSE, value |-> reply]
  ELSE IF reply = None THEN [raised |-> FALSE, value |-> None]
  ELSE [raised |-> TRUE, value |-> reply]

\* a mutant of sync_reply_value: the alarm value whatever ended the wait
sync_reply_value_alarm(r) == calls[r].alarm

\* the value _sync_reply returns when the wait ends with the event set
sync_reply_value(r) == objs[r].reply

\* "yield req.event.wait(req.timeout)" returns True: the event was set
sync_reply_return(r) ==
  /\ r \in DOMAIN calls
  /\ calls[r].st = "wait"
  /\ calls[r].op \in SyncOps
  /\ objs[r].event = "set"
  /\ calls' = [calls EXCEPT ![r].st = "returned", ![r].result = sync_reply_value(r)]
  /\ UNCHANGED <<config, peers, objs, requests, tcp, udp, hist>>

\* the wait returns False: req.timeout passed with the event not set. History:
\* the requests that were still queued when their callers gave up.
sync_reply_alarm(r) ==
  /\ r \in DOMAIN calls
  /\ calls[r].st = "wait"
  /\ calls[r].op \in SyncOps
  /\ objs[r].timeout # "None"
  /\ objs[r].event # "set"
  /\ calls' = [calls EXCEPT ![r].st = "returned", ![r].result = calls[r].alarm,
                            ![r].timedout = TRUE]
  /\ hist' = IF /\ objs[r].dst \in DOMAIN peers[calls[r].inst]
                 /\ r \in Range(peers[calls[r].inst][objs[r].dst].reqs)
              THEN [hist EXCEPT !.expired = @ \cup {r}]
              ELSE hist
  /\ UNCHANGED <<config, peers, objs, requests, tcp, udp>>

\* what the public operation hands to its caller: del_file turns None into -1
PublicResult(op, v) == IF op = "del_file" /\ v = None THEN IntVal(-1) ELSE v

----------------------------------------------------------------------------
(* The peer seen from the pipeline: its _tcp_task reads one request after  *)
(* another from the connection and answers each on the same connection.    *)

\* the peer's task reads the next request and sends its reply
remote_reply(c) ==
  /\ c \in DOMAIN tcp
  /\ tcp[c].sopen
  /\ tcp[c].pc = "recv_msg"
  /\ tcp[c].c2s # <<>>
  /\ LET msg == Head(tcp[c].c2s) IN
       /\ tcp' = [tcp EXCEPT ![c].c2s = Tail(@),
                             ![c].s2c = IF tcp[c].copen
                                        THEN Append(@, PeerReply(msg.obj)) ELSE @]
       /\ hist' = [hist EXCEPT !.executed[tcp[c].to] = Append(@, msg.obj)]
  /\ UNCHANGED <<config, peers, objs, requests, calls, udp>>

\* recv_msg returns nothing once the client has closed: the task ends
remote_close(c) ==
  /\ c \in DOMAIN tcp
  /\ tcp[c].sopen
  /\ tcp[c].pc = "recv_msg"
  /\ ~tcp[c].copen
  /\ tcp[c].c2s = <<>>
  /\ tcp' = CloseServer(tcp, c)
  /\ UNCHANGED <<config, peers, objs, requests, calls, udp, hist>>

----------------------------------------------------------------------------
(* The pipeline on its own: instance A with the peer at B's location        *)
(* installed and none at LocX, user coroutines calling through _sync_reply, *)
(* and the terminate verb removing the peer.                                *)

\* sha1((signature + secret) as ascii).hexdigest(), the digest kept as the
\* string it was made from; None when there is no secret
AuthCode(sig, sec) == IF sec = NoneStr THEN NoneStr ELSE <<"sha1">> \o sig \o sec

NoHist ==
  [accepted |-> [i \in Inst |-> [l \in Locs |-> <<>>]],
   transmitted |-> [i \in Inst |-> [l \in Locs |-> <<>>]],
   txerr |-> [i \in Inst |-> [l \in Locs |-> FALSE]],
   failed |-> {},
   aborted |-> {},
   rci_call |-> [op |-> "", rci |-> 0, ret |-> 0, before |-> EmptyDict],
   spawned |-> {},
   carried |-> [i \in Inst |-> [l \in Locs |-> <<>>]],
   executed |-> [l \in Locs |-> <<>>],
   lost |-> FALSE,
   udp_sent |-> [i \in Inst |-> 0],
   dispatched |-> {},
   rejected |-> {},
   resolutions |-> <<>>,
   drained |-> {},
   replies |-> {},
   injected |-> 0,
   expired |-> {},
   peer_calls |-> 0,
   started |-> [i \in Inst |-> [l \in Locs |-> 0]],
   terminated |-> [i \in Inst |-> [l \in Locs |-> 0]]]

InitPipe ==
  /\ up = {"A", "B"}
  /\ secret = [i \in Inst |-> <<"s">>]
  /\ signature = [i \in Inst |-> <<i>>]
  /\ version = [i \in Inst |-> "v1"]
  /\ Registered([i \in Inst |-> {}])
  /\ stream_peers = [i \in Inst |-> {}]
  /\ NoFiles
  /\ \E stream \in BOOLEAN :
       peers = [i \in Inst |->
                  IF i = "A"
                  THEN LocOf["B"] :> [Peer(AuthCode(signature["B"], secret["A"]))
                                        EXCEPT !.stream = stream]
                  ELSE EmptyDict]
  /\ objs = <<>>
  /\ requests = [i \in Inst |-> {}]
  /\ calls = EmptyDict
  /\ tcp = EmptyDict
  /\ udp = {}
  /\ hist = NoHist

\* the calls user coroutines of A make: del_file without a timeout, and a
\* caller of _sync_reply that passes a timeout and an alarm_value of its own
PipeCalls ==
  {[op |-> "del_file", timeout |-> "None", alarm |-> None],
   [op |-> "sync_reply", timeout |-> "t", alarm |-> IntVal(-1)]}

PipeCall ==
  \E k \in PipeCalls : \E dst \in {LocOf["B"], LocX} :
    sync_reply("A", k.op, dst, k.timeout, k.alarm)

NextPipe ==
  \/ PipeCall
  \/ \E r \in DOMAIN calls : sync_reply_return(r)
  \/ \E r \in DOMAIN calls : sync_reply_alarm(r)
  \/ \E l \in Locs : req_proc_start("A", l)
  \/ \E l \in Locs : req_proc_wake("A", l)
  \/ \E l \in Locs : req_proc_connected("A", l)
  \/ \E l \in Locs : req_proc_connect_failed("A", l)
  \/ \E l \in Locs : req_proc_sent("A", l)
  \/ \E l \in Locs : req_proc_send_failed("A", l)
  \/ \E l \in Locs : req_proc_reply("A", l)
  \/ \E l \in Locs : req_proc_recv_failed("A", l)
  \/ \E l \in Locs : remove("A", l)
  \/ \E c \in DOMAIN tcp : remote_reply(c)
  \/ \E c \in DOMAIN tcp : remote_close(c)

SpecPipe == InitPipe /\ [][NextPipe]_vars

----------------------------------------------------------------------------
(* Claims about the pipeline, stated for SpecPipe *)

LocB == LocOf["B"]

\* the requests the worker of the peer at l still has to transmit: the one
\* it popped and has not sent yet, then the queue
Untransmitted(i, l) ==
  (IF peers[i][l].pc \in {"connect", "send_msg"} THEN <<peers[i][l].req>> ELSE <<>>)
    \o peers[i][l].reqs

\* C1: the requests send_req accepted for a peer are transmitted by its worker
\* in the order they were enqueued and each at most once: what was transmitted
\* is what was accepted with some requests left out, never re-ordered or
\* repeated. While the peer is in the table and no transport error occurred,
\* none is left out: accepted = transmitted, then what is still to transmit.
C1_TransmittedInOrder ==
  \A l \in Locs :
    LET acc == hist.accepted["A"][l]
        tx == hist.transmitted["A"][l] IN
      /\ tx = SelectSeq(acc, LAMBDA r : r \in Range(tx))
      /\ (l \in DOMAIN peers["A"] /\ ~hist.txerr["A"][l])
           => acc = tx \o Untransmitted("A", l)

\* two requests were accepted for B and both transmitted, with no transport error
C1_Witness ==
  /\ LocB \in DOMAIN peers["A"]
  /\ ~hist.txerr["A"][LocB]
  /\ Len(hist.transmitted["A"][LocB]) = 2
  /\ peers["A"][LocB].pc = "wait"

\* the request object r is in the hands of a live worker: queued, or popped
\* and on its way
InPipeline(i, r) ==
  \E l \in DOMAIN peers[i] :
    \/ r \in Range(peers[i][l].reqs)
    \/ peers[i][l].req = r /\ peers[i][l].pc \in {"connect", "send_msg", "recv_msg"}

\* C9: every synchronous operation built on _sync_reply returns, also when the
\* destination is not in the PeerTable and the timeout is None: a caller that
\* waits always has something that ends its wait, the event already set, a
\* timeout, or a worker that holds the request and will set the event.
C9_SyncCallReturns ==
  \A r \in DOMAIN calls :
    (calls[r].op \in SyncOps /\ calls[r].st = "wait")
      => \/ objs[r].event = "set"
         \/ objs[r].timeout # "None"
         \/ InPipeline(calls[r].inst, r)

\* C10: _sync_reply returns alarm_value when the wait timed out, which takes a
\* timeout; otherwise the event was set and it returns req.reply as the worker
\* left it: None after a transport error, else what the peer answered to this
\* request.
C10_SyncReplyResult ==
  \A r \in DOMAIN calls :
    (calls[r].op \in SyncOps /\ calls[r].st = "returned")
      => IF calls[r].timedout
         THEN calls[r].result = calls[r].alarm /\ objs[r].timeout # "None"
         ELSE /\ objs[r].event = "set"
              /\ calls[r].result = objs[r].reply
              /\ calls[r].result = IF r \in hist.failed THEN None ELSE PeerReply(r)

\* one call returned the peer's answer, another the alarm value on a timeout
C10_Witness ==
  \E r, q \in DOMAIN calls :
    /\ calls[r].st = "returned" /\ ~calls[r].timedout /\ calls[r].result = PeerReply(r)
    /\ calls[q].st = "returned" /\ calls[q].timedout /\ calls[q].result = IntVal(-1)

----------------------------------------------------------------------------
(* Discovery and the handshake: _udp_proc and the ping and pong handlers of *)
(* _tcp_task                                                                *)

\* AsynCoro._auth_code, made in __init__ from the instance's own signature
own_auth_code(i) == AuthCode(signature[i], secret[i])

\* the dictionary _udp_proc broadcasts after b'ping:'
PingInfo(i) ==
  [location |-> LocOf[i], signature |-> signature[i], version |-> version[i]]

\* "info['signature'] + self._secret" raises when the signature is None
SigOk(j, sig) == secret[j] = NoneStr \/ sig # NoneStr

\* a mutant of peer_auth_code: the digest made from the instance's own signature
peer_auth_code_own(j, sig) == AuthCode(signature[j], secret[j])

\* the auth_code a handler computes for a peer from the peer's signature and
\* its own secret
peer_auth_code(j, sig) == AuthCode(sig, secret[j])

\* the kwargs of the ping and pong requests
PeerKwargs(peer, sig, ver) ==
  [NoKwargs EXCEPT !.peer = peer, !.signature = sig, !.version = ver]

\* _udp_proc, first step: the ping is broadcast once, to every other instance
\* that listens on the UDP port
udp_broadcast(i) ==
  /\ i \in up
  /\ hist.udp_sent[i] = 0
  /\ udp' = udp \cup {[to |-> j, info |-> PingInfo(i)] : j \in up \ {i}}
  /\ hist' = [hist EXCEPT !.udp_sent[i] = 1]
  /\ UNCHANGED <<config, peers, objs, requests, calls, tcp>>

\* does _udp_proc of i answer the ping with a TCP ping?
udp_answers(i, info) ==
  /\ info.version = version[i]
  /\ SigOk(i, info.signature)
  /\ info.location # LocOf[i]
  /\ ~(/\ info.location \in DOMAIN peers[i]
       /\ peers[i][info.location].auth = peer_auth_code(i, info.signature))

\* _udp_proc, one turn of its loop: a ping datagram is read and, unless it is
\* dropped, a ping request goes to the sender over a TCP connection of its own
udp_recv(d) ==
  /\ d \in udp
  /\ udp' = udp \ {d}
  /\ LET i == d.to
         req_peer == d.info.location
         req == NetRequest("ping", PeerKwargs(LocOf[i], signature[i], version[i]),
                           NoLoc, req_peer,
                           peer_auth_code(i, d.info.signature), "None") IN
       IF udp_answers(i, d.info) /\ Listening(req_peer)
       THEN /\ FreeConns # {}
            /\ tcp' = (NextConn :> OneShot(i, req_peer, Serialize(req, 0))) @@ tcp
       ELSE UNCHANGED tcp
  /\ UNCHANGED <<config, peers, objs, requests, calls, hist>>

----------------------------------------------------------------------------
(* Found a peer: the part the ping and the pong handler share, from the    *)
(* relay to the pending requests                                           *)

\* the peers on the same host as j, other than j
peers_same_host(j) ==
  {l \in DOMAIN peers[j] : l.addr = LocOf[j].addr /\ l.port # LocOf[j].port}

\* "for port, peer in peers: ... _Peer.send_req(relay_req)": st holds the
\* peers, the request objects and the history as the loop goes
RECURSIVE relay(_, _, _, _)
relay(st, j, targets, req) ==
  IF targets = {} THEN st
  ELSE LET l == CHOOSE x \in targets : \A y \in targets : x.port <= y.port
           r == Len(st.objs) + 1
           relay_req ==
             NetRequest("ping",
                        PeerKwargs(req.kwargs.peer, req.kwargs.signature, version[j]),
                        NoLoc, Location(LocOf[j].addr, l.port), NoneStr, "1") IN
         relay([peers |-> send_req(st.peers, j, l, r),
                objs |-> Append(st.objs, relay_req),
                hist |-> send_req_hist(st.hist, st.peers, j, l, r)],
               j, targets \ {l}, req)

\* a mutant of is_stream_peer: the entry for every port of the host is not
\* looked at
is_stream_peer_port(j, req_peer) == req_peer \in stream_peers[j]

\* is the new peer a stream peer?
is_stream_peer(j, req_peer) ==
  \/ req_peer \in stream_peers[j]
  \/ Location(req_peer.addr, 0) \in stream_peers[j]

\* pending_reqs: deep copies of the requests in _requests of j that are for
\* any peer or for req_peer, in the order they were put there
pending_reqs(j, req_peer) ==
  LET ids == SelectSeq([k \in 1..Len(objs) |-> k],
                       LAMBDA r : /\ r \in requests[j]
                                  /\ (objs[r].dst = NoLoc \/ objs[r].dst = req_peer)) IN
    [k \in 1..Len(ids) |-> Serialize(objs[ids[k]], ids[k])]

\* "self.req_coro = Coro(self.req_proc)" of _Peer.__init__: one more worker
\* runs for the location l at j
Coro_req_proc(h, j, l) == [h EXCEPT !.started[j][l] = @ + 1]

\* a mutant of found_peer: the peer is installed anew whether or not the table
\* has an entry for its location
found_peer_again(j, c, t) ==
  LET req_peer == t[c].req_peer
      st == relay([peers |-> peers, objs |-> objs, hist |-> hist], j,
                  peers_same_host(j), t[c].req)
      pending == pending_reqs(j, req_peer) IN
    /\ objs' = st.objs
    /\ hist' = Coro_req_proc(st.hist, j, req_peer)
    /\ peers' = [st.peers EXCEPT ![j] =
                   (req_peer :> [Peer(t[c].auth_code) EXCEPT
                                   !.stream = is_stream_peer(j, req_peer)])
                     @@ Drop(@, req_peer)]
    /\ tcp' = IF pending = <<>> THEN TaskLoop(t, c)
              ELSE [t EXCEPT ![c].pc = "drain", ![c].pending = pending]

\* from "found asyncoro at ..." to the first pending request: the task of
\* connection c relays the ping, installs the peer unless there is one at that
\* location, and goes on to send the pending requests, if any
found_peer(j, c, t) ==
  LET req_peer == t[c].req_peer
      st == relay([peers |-> peers, objs |-> objs, hist |-> hist], j,
                  peers_same_host(j), t[c].req)
      pending == pending_reqs(j, req_peer) IN
    /\ objs' = st.objs
    /\ IF req_peer \in DOMAIN peers[j]
       THEN /\ peers' = st.peers
            /\ hist' = st.hist
            /\ tcp' = CloseServer(t, c)
       ELSE /\ hist' = Coro_req_proc(st.hist, j, req_peer)
            /\ peers' = [st.peers EXCEPT ![j] =
                           (req_peer :> [Peer(t[c].auth_code) EXCEPT
                                           !.stream = is_stream_peer(j, req_peer)]) @@ @]
            /\ tcp' = IF pending = <<>> THEN TaskLoop(t, c)
                      ELSE [t EXCEPT ![c].pc = "drain", ![c].pending = pending]

\* a mutant of tcp_task_drain: the request of _requests itself, not a copy of
\* it, gets the peer's auth
tcp_task_drain_shared(c) ==
  /\ c \in DOMAIN tcp
  /\ tcp[c].pc = "drain"
  /\ FreeConns # {}
  /\ LET j == InstAt(tcp[c].to)
         req_peer == tcp[c].req_peer
         pending_req == [Head(tcp[c].pending) EXCEPT !.auth = tcp[c].auth_code]
         t == [tcp EXCEPT ![c].pending = Tail(@)]
         t2 == IF t[c].pending = <<>> THEN TaskLoop(t, c) ELSE t IN
       /\ tcp' = IF Listening(req_peer)
                 THEN (NextConn :> OneShot(j, req_peer, pending_req)) @@ t2
                 ELSE t2
       /\ objs' = [objs EXCEPT ![pending_req.obj].auth = tcp[c].auth_code]
       /\ hist' = [hist EXCEPT !.drained = @ \cup {<<pending_req.obj, req_peer>>}]
  /\ UNCHANGED <<config, peers, requests, calls, udp>>

\* one turn of "for rid, pending_req in pending_reqs": the copy goes to the new
\* peer over a connection of its own, with the peer's auth
tcp_task_drain(c) ==
  /\ c \in DOMAIN tcp
  /\ tcp[c].pc = "drain"
  /\ FreeConns # {}
  /\ LET j == InstAt(tcp[c].to)
         req_peer == tcp[c].req_peer
         pending_req == [Head(tcp[c].pending) EXCEPT !.auth = tcp[c].auth_code]
         t == [tcp EXCEPT ![c].pending = Tail(@)]
         t2 == IF t[c].pending = <<>> THEN TaskLoop(t, c) ELSE t IN
       /\ tcp' = IF Listening(req_peer)
                 THEN (NextConn :> OneShot(j, req_peer, pending_req)) @@ t2
                 ELSE t2
       /\ hist' = [hist EXCEPT !.drained = @ \cup {<<pending_req.obj, req_peer>>}]
  /\ UNCHANGED <<config, peers, objs, requests, calls, udp>>

----------------------------------------------------------------------------
(* _tcp_task: one task per accepted connection                             *)

\* "break" with nothing done: the task closes the connection
tcp_break(c, t) ==
  /\ tcp' = CloseServer(t, c)
  /\ UNCHANGED <<peers, objs, requests>>

\* a mutant of auth_ok: every message is let through
auth_any(j, req) == TRUE

\* a mutant of auth_ok: a pong may fail the check as a ping may
auth_ping_pong(j, req) ==
  req.auth = own_auth_code(j) \/ req.name \in {"ping", "pong"}

\* the check of req.auth against the instance's own auth code, which only a
\* ping may fail
\* a mutant of wrong_dst: dst is not looked at
wrong_dst_never(j, req) == FALSE

\* "req.dst is not None and req.dst != self._location"
wrong_dst(j, req) == req.dst # NoLoc /\ req.dst # LocOf[j]

auth_ok(j, req) == req.auth = own_auth_code(j) \/ req.name = "ping"

\* a mutant of requests_pop: the entry stays in _requests
requests_keep(rs, j, id) == rs

\* self._requests.pop(async_reply.id, None): the dict afterwards
requests_pop(rs, j, id) == [rs EXCEPT ![j] = @ \ {id}]

\* req.src == self._location: the message is the reply to an asynchronous
\* request of this instance, named by its id
async_reply(j, c, t, msg) ==
  IF msg.id \in requests[j]
  THEN /\ requests' = requests_pop(requests, j, msg.id)
       /\ objs' = EventSet([objs EXCEPT ![msg.id].reply = msg.reply], msg.id)
       /\ tcp' = CloseServer(t, c)
       /\ hist' = [hist EXCEPT !.resolutions =
                     Append(@, [inst |-> j, obj |-> msg.id, id |-> msg.id,
                                reply |-> msg.reply])]
       /\ UNCHANGED peers
  ELSE /\ tcp_break(c, t)
       /\ hist' = [hist EXCEPT !.rejected = @ \cup {<<j, msg.name, "id">>}]

\* self._rcis.get(name, None), as it is pickled for a reply
rcis_get(j, name) ==
  IF name \in rcis[j]
  THEN RciHandle(RCIs[j][rci_of[j][name]]._name, RCIs[j][rci_of[j][name]]._location)
  ELSE None

\* the answer to a locate_rci or locate_peer request: an asynchronous request
\* (src is set) is answered over a new connection to src, if src is a peer,
\* with the peer's auth; a synchronous one on conn
locate_answer(j, c, t, msg, value) ==
  LET known == msg.src # NoLoc /\ msg.src \in DOMAIN peers[j] IN
    /\ known => FreeConns # {}
    /\ tcp' = IF msg.src = NoLoc THEN TaskLoop(Send(t, c, value), c)
              ELSE IF known /\ Listening(msg.src)
              THEN (NextConn :> OneShot(j, msg.src,
                                        [msg EXCEPT !.auth = peers[j][msg.src].auth,
                                                    !.reply = value]))
                     @@ TaskLoop(t, c)
              ELSE TaskLoop(t, c)
    /\ hist' = [hist EXCEPT
                  !.dispatched = @ \cup {<<j, msg.name>>},
                  !.replies = IF known
                              THEN @ \cup {[from |-> j, to |-> msg.src, id |-> msg.id,
                                            reply |-> value]}
                              ELSE @]
    /\ UNCHANGED <<peers, objs, requests>>

\* a request that is not answered: the task reads on
locate_silent(j, c, t, msg) ==
  /\ tcp' = TaskLoop(t, c)
  /\ hist' = [hist EXCEPT !.dispatched = @ \cup {<<j, msg.name>>}]
  /\ UNCHANGED <<peers, objs, requests>>

\* a mutant of locate_rci_answers: a reply is sent whether the name is known
\* or not
locate_rci_always(j, msg) == TRUE

\* "if rci is not None or req.dst == self._location"
locate_rci_answers(j, msg) ==
  rcis_get(j, msg.kwargs.name) # None \/ msg.dst = LocOf[j]

\* the locate_rci verb
locate_rci(j, c, t, msg) ==
  IF locate_rci_answers(j, msg)
  THEN locate_answer(j, c, t, msg, rcis_get(j, msg.kwargs.name))
  ELSE locate_silent(j, c, t, msg)

\* a mutant of locate_peer: an instance asked by its location says nothing
\* when the name is not its own
locate_peer_named(j, c, t, msg) ==
  IF msg.kwargs.name = NameOf[j]
  THEN locate_answer(j, c, t, msg, LocVal(LocOf[j]))
  ELSE locate_silent(j, c, t, msg)

\* the locate_peer verb: the location of the instance that has the name
locate_peer(j, c, t, msg) ==
  IF msg.kwargs.name = NameOf[j] \/ msg.dst = LocOf[j]
  THEN locate_answer(j, c, t, msg,
                     IF msg.kwargs.name = NameOf[j] THEN LocVal(LocOf[j]) ELSE None)
  ELSE locate_silent(j, c, t, msg)

\* the ping verb up to "reply = yield sock.recv_msg()": the pong is sent to the
\* peer over a new connection and the task waits for the answer
ping(j, c, t, msg) ==
  LET req_peer == msg.kwargs.peer
      auth_code == peer_auth_code(j, msg.kwargs.signature)
      pong == NetRequest("pong", PeerKwargs(LocOf[j], signature[j], version[j]),
                         NoLoc, req_peer, auth_code, "None")
      ignored == \/ ~SigOk(j, msg.kwargs.signature)
                 \/ msg.kwargs.version # version[j]
                 \/ req_peer = LocOf[j]
                 \/ (req_peer \in DOMAIN peers[j] /\ peers[j][req_peer].auth = auth_code)
                 \/ ~Listening(req_peer) IN
    /\ ~ignored => FreeConns # {}
    /\ tcp' = IF ignored THEN CloseServer(t, c)
              ELSE (NextConn :> [NewConn(j, req_peer) EXCEPT
                                   !.c2s = <<Serialize(pong, 0)>>])
                     @@ [t EXCEPT ![c].pc = "pong_wait", ![c].req = msg,
                                  ![c].req_peer = req_peer,
                                  ![c].auth_code = auth_code, ![c].sock = NextConn]
    /\ hist' = [hist EXCEPT !.dispatched = @ \cup {<<j, msg.name>>}]
    /\ UNCHANGED <<peers, objs, requests>>

\* the pong verb up to "yield conn.send_msg(...)": nak for a peer that is in
\* the table with this auth, else ack
pong(j, c, t, msg) ==
  LET req_peer == msg.kwargs.peer
      auth_code == peer_auth_code(j, msg.kwargs.signature) IN
    /\ tcp' = IF msg.kwargs.version # version[j] \/ ~SigOk(j, msg.kwargs.signature)
              THEN CloseServer(t, c)
              ELSE IF req_peer \in DOMAIN peers[j] /\ peers[j][req_peer].auth = auth_code
              THEN CloseServer(Send(t, c, Bytes("nak")), c)
              ELSE [Send(t, c, Bytes("ack")) EXCEPT
                      ![c].pc = "ack_sent", ![c].req = msg, ![c].req_peer = req_peer,
                      ![c].auth_code = auth_code]
    /\ hist' = [hist EXCEPT !.dispatched = @ \cup {<<j, msg.name>>}]
    /\ UNCHANGED <<peers, objs, requests>>

\* the terminate verb: a request with src set fails the assert and the task
\* ends there; else the peer of kwargs is removed, ack is sent (a failure to
\* send is passed over) and the task breaks, which closes the connection
terminate(j, c, t, msg) ==
  IF msg.src # NoLoc
  THEN /\ tcp_break(c, t)
       /\ hist' = [hist EXCEPT !.rejected = @ \cup {<<j, msg.name, "src">>}]
  ELSE LET st == Peer_remove([peers |-> peers, objs |-> objs, tcp |-> t,
                              hist |-> hist], j, msg.kwargs.peer) IN
         /\ peers' = st.peers
         /\ objs' = st.objs
         /\ tcp' = CloseServer(Send(st.tcp, c, Bytes("ack")), c)
         /\ hist' = [st.hist EXCEPT !.dispatched = @ \cup {<<j, msg.name>>}]
         /\ UNCHANGED requests

\* the run_rci verb: a request with src set fails the assert and the task ends
\* there; else the reply is an Exception when dst is not this location or no
\* RCI has the name, and the Coro made from the RCI's method, or the
\* Exception its making raised (spawned tells which), when one has
run_rci(j, c, t, msg, spawned) ==
  IF msg.src # NoLoc
  THEN /\ tcp_break(c, t)
       /\ hist' = [hist EXCEPT !.rejected = @ \cup {<<j, msg.name, "src">>}]
  ELSE LET made == msg.dst = LocOf[j] /\ msg.kwargs.name \in rcis[j] /\ spawned
           coro == CoroHandle(Cardinality(hist.spawned) + 1, msg.kwargs.name, LocOf[j])
           reply == IF msg.dst # LocOf[j] THEN Exc("invalid RCI invocation")
                    ELSE IF msg.kwargs.name \notin rcis[j] THEN Exc("not registered")
                    ELSE IF spawned THEN coro
                    ELSE Exc("traceback") IN
         /\ tcp' = TaskLoop(Send(t, c, reply), c)
         /\ hist' = [hist EXCEPT !.dispatched = @ \cup {<<j, msg.name>>},
                                 !.spawned = IF made THEN @ \cup {coro} ELSE @]
         /\ UNCHANGED <<peers, objs, requests>>

\* the file a path names on the host: the host resolves "." and ".."
realpath(path) == abspath(path)

\* os.path.isfile(path) on i's host
isfile(i, path) == realpath(path) \in DOMAIN files[i]

\* tgt of the send_file verb: the basename of the file, below dest_path when
\* that is a string, below dest_path_prefix, made absolute
send_file_tgt(kwargs) ==
  LET tgt == basename(kwargs.file) IN
    abspath(join(dest_path_prefix,
                 IF kwargs.dest_path # NoneStr THEN join(kwargs.dest_path, tgt) ELSE tgt))

\* a mutant of too_big: a file as big as max_file_size is refused too
too_big_or_equal(j, stat_buf) ==
  max_file_size[j] # 0 /\ stat_buf.st_size >= max_file_size[j]

\* "self.max_file_size and stat_buf.st_size > self.max_file_size"
too_big(j, stat_buf) == max_file_size[j] # 0 /\ stat_buf.st_size > max_file_size[j]

\* a mutant of same_file: only a file a second older counts as the same
same_file_if_older(stat_buf, sbuf) ==
  /\ stat_buf.st_mtime - sbuf.st_mtime = 1
  /\ stat_buf.st_size = sbuf.st_size
  /\ stat_buf.st_mode = sbuf.st_mode

\* the same file is there already: mtime within a second, same size, same
\* mode bits
same_file(stat_buf, sbuf) ==
  /\ stat_buf.st_mtime - sbuf.st_mtime \in -1..1
  /\ stat_buf.st_size = sbuf.st_size
  /\ stat_buf.st_mode = sbuf.st_mode

\* resp of the send_file verb before the target is opened
send_file_resp(j, kwargs) ==
  LET tgt == send_file_tgt(kwargs)
      stat_buf == kwargs.stat_buf IN
    IF too_big(j, stat_buf) THEN IntVal(-1)
    ELSE IF ~startswith(tgt, dest_path_prefix) THEN IntVal(-1)
    ELSE IF isfile(j, tgt)
    THEN IF same_file(stat_buf, files[j][tgt]) THEN IntVal(1)
         ELSE IF ~kwargs.overwrite THEN StatResult(files[j][tgt])
         ELSE IntVal(0)
    ELSE IntVal(0)

\* the send_file verb up to "yield conn.send_msg(serialize(resp))": a request
\* with src set or with another dst fails an assert and the task ends there;
\* with resp 0 the target is opened for writing, which makes it an empty file
\* of this moment (mtime 20), or fails (opened tells which) and resp is -1
send_file(j, c, t, msg, opened) ==
  IF msg.src # NoLoc \/ msg.dst # LocOf[j]
  THEN /\ tcp_break(c, t)
       /\ hist' = [hist EXCEPT !.rejected = @ \cup {<<j, msg.name, "assert">>}]
       /\ UNCHANGED files
  ELSE LET tgt == send_file_tgt(msg.kwargs)
           resp == IF send_file_resp(j, msg.kwargs) = IntVal(0) /\ ~opened
                   THEN IntVal(-1)
                   ELSE send_file_resp(j, msg.kwargs) IN
         /\ files' = IF resp = IntVal(0)
                      THEN [files EXCEPT ![j] = (tgt :> StatBuf(0, 20, "644")) @@ @]
                      ELSE files
         /\ tcp' = IF resp = IntVal(0)
                   THEN [Send(t, c, resp) EXCEPT ![c].pc = "send_file", ![c].req = msg]
                   ELSE TaskLoop(Send(t, c, resp), c)
         /\ hist' = [hist EXCEPT !.dispatched = @ \cup {<<j, msg.name>>}]
         /\ UNCHANGED <<peers, objs, requests>>

\* tgt of the del_file verb: as for send_file, but a dest_path that is empty
\* is passed over and the path is not made absolute
del_file_tgt(kwargs) ==
  LET tgt == basename(kwargs.file) IN
    join(dest_path_prefix,
         IF kwargs.dest_path # NoneStr /\ kwargs.dest_path # <<>>
         THEN join(kwargs.dest_path, tgt) ELSE tgt)

\* the del_file verb: the target is removed when its path starts with
\* dest_path_prefix and names a file, and the reply is 0; else the reply is -1
del_file(j, c, t, msg) ==
  IF msg.src # NoLoc \/ msg.dst # LocOf[j]
  THEN /\ tcp_break(c, t)
       /\ hist' = [hist EXCEPT !.rejected = @ \cup {<<j, msg.name, "assert">>}]
       /\ UNCHANGED files
  ELSE LET tgt == del_file_tgt(msg.kwargs)
           found == startswith(tgt, dest_path_prefix) /\ isfile(j, tgt) IN
         /\ files' = IF found THEN [files EXCEPT ![j] = Drop(@, realpath(tgt))] ELSE files
         /\ tcp' = TaskLoop(Send(t, c, IF found THEN IntVal(0) ELSE IntVal(-1)), c)
         /\ hist' = [hist EXCEPT !.dispatched = @ \cup {<<j, msg.name>>}]
         /\ UNCHANGED <<peers, objs, requests>>

\* the message passes the checks of the dispatcher and is no reply to a
\* request of j: it goes to the verbs
to_verbs(j, msg) ==
  /\ auth_ok(j, msg)
  /\ ~wrong_dst(j, msg)
  /\ msg.src # LocOf[j]

\* a verb none of the branches knows: a warning, and the task reads on
invalid_request(j, c, t, msg) ==
  /\ tcp' = TaskLoop(t, c)
  /\ hist' = [hist EXCEPT !.dispatched = @ \cup {<<j, msg.name>>}]
  /\ UNCHANGED <<peers, objs, requests>>

\* one message read by the task of connection c, from recv_msg to the task's
\* next yield: the auth check, the dst check, the reply to an asynchronous
\* request, then the verb
tcp_task_recv(c) ==
  /\ c \in DOMAIN tcp
  /\ tcp[c].sopen
  /\ tcp[c].pc = "recv_msg"
  /\ tcp[c].c2s # <<>>
  /\ Listening(tcp[c].to)
  /\ LET j == InstAt(tcp[c].to)
         msg == Head(tcp[c].c2s)
         t == [tcp EXCEPT ![c].c2s = Tail(@)] IN
       IF to_verbs(j, msg) /\ msg.name = "send_file"
       THEN \E opened \in BOOLEAN : send_file(j, c, t, msg, opened)
       ELSE IF to_verbs(j, msg) /\ msg.name = "del_file"
       THEN del_file(j, c, t, msg)
       ELSE UNCHANGED files /\
       IF ~auth_ok(j, msg)
       THEN /\ tcp_break(c, t)
            /\ hist' = [hist EXCEPT !.rejected = @ \cup {<<j, msg.name, "auth">>}]
       ELSE IF wrong_dst(j, msg)
       THEN /\ tcp_break(c, t)
            /\ hist' = [hist EXCEPT !.rejected = @ \cup {<<j, msg.name, "dst">>}]
       ELSE IF msg.src = LocOf[j] THEN async_reply(j, c, t, msg)
       ELSE IF msg.name = "locate_rci" THEN locate_rci(j, c, t, msg)
       ELSE IF msg.name = "locate_peer" THEN locate_peer(j, c, t, msg)
       ELSE IF msg.name = "ping" THEN ping(j, c, t, msg)
       ELSE IF msg.name = "pong" THEN pong(j, c, t, msg)
       ELSE IF msg.name = "terminate" THEN terminate(j, c, t, msg)
       ELSE IF msg.name = "run_rci" THEN \E spawned \in BOOLEAN : run_rci(j, c, t, msg, spawned)
       ELSE invalid_request(j, c, t, msg)
  /\ UNCHANGED <<settings, calls, udp>>

\* the bytes of a file on a connection, n of them
Data(n) == [NoMsg EXCEPT !.name = "data", !.id = n]

\* a mutant of utime_chmod: os.chmod without os.utime
chmod_only(sbuf, stat_buf) == [sbuf EXCEPT !.st_mode = stat_buf.st_mode]

\* the stat of the target after "os.utime(tgt, (st_atime, st_mtime))" and
\* "os.chmod(tgt, S_IMODE(st_mode))"
utime_chmod(sbuf, stat_buf) ==
  [sbuf EXCEPT !.st_atime = stat_buf.st_atime, !.st_mtime = stat_buf.st_mtime,
               !.st_mode = stat_buf.st_mode]

\* the send_file verb after its first reply: "data = yield conn.recvall(...)"
\* until st_size bytes are there or the stream ends; bytes behind the file
\* stay on the connection. A file that came whole gets the times and the
\* mode of stat_buf and the reply 0; else the target is removed and the reply
\* is -1. When the target is gone by then, os.remove or os.utime raises and
\* the task ends.
tcp_task_send_file(c) ==
  /\ c \in DOMAIN tcp
  /\ tcp[c].pc = "send_file"
  /\ LET j == InstAt(tcp[c].to)
         stat_buf == tcp[c].req.kwargs.stat_buf
         tgt == send_file_tgt(tcp[c].req.kwargs)
         n == IF tcp[c].c2s # <<>> /\ Head(tcp[c].c2s).name = "data"
              THEN Head(tcp[c].c2s).id ELSE 0
         t == IF tcp[c].c2s = <<>> \/ stat_buf.st_size = 0 THEN tcp
              ELSE IF n > stat_buf.st_size
              THEN [tcp EXCEPT ![c].c2s = <<Data(n - stat_buf.st_size)>> \o Tail(@)]
              ELSE [tcp EXCEPT ![c].c2s = Tail(@)] IN
       /\ stat_buf.st_size = 0 \/ tcp[c].c2s # <<>> \/ ~tcp[c].copen
       /\ IF tgt \notin DOMAIN files[j]
          THEN /\ tcp' = CloseServer(t, c)
               /\ UNCHANGED files
          ELSE /\ files' = IF n < stat_buf.st_size
                            THEN [files EXCEPT ![j] = Drop(@, tgt)]
                            ELSE [files EXCEPT ![j][tgt] =
                                    utime_chmod([@ EXCEPT !.st_size = stat_buf.st_size],
                                                stat_buf)]
               /\ tcp' = TaskLoop(Send(t, c, IF n < stat_buf.st_size THEN IntVal(-1)
                                              ELSE IntVal(0)), c)
  /\ UNCHANGED <<settings, peers, objs, requests, calls, udp, hist>>

\* the ping handler gets the answer to its pong: "assert reply == b'ack'",
\* "finally: sock.close()", and on ack the peer is found
tcp_task_pong_reply(c) ==
  /\ c \in DOMAIN tcp
  /\ tcp[c].pc = "pong_wait"
  /\ tcp[c].sock \in DOMAIN tcp
  /\ tcp[tcp[c].sock].s2c # <<>>
  /\ LET j == InstAt(tcp[c].to)
         reply == Head(tcp[tcp[c].sock].s2c)
         t == CloseClient(tcp, tcp[c].sock) IN
       IF reply = Bytes("ack") THEN found_peer(j, c, t)
       ELSE tcp_break(c, t) /\ UNCHANGED hist
  /\ UNCHANGED <<config, requests, calls, udp>>

\* the peer closed the connection without an answer: recv_msg returns nothing
\* and the assert fails
tcp_task_pong_closed(c) ==
  /\ c \in DOMAIN tcp
  /\ tcp[c].pc = "pong_wait"
  /\ tcp[c].sock \in DOMAIN tcp
  /\ ~tcp[tcp[c].sock].sopen
  /\ tcp[tcp[c].sock].s2c = <<>>
  /\ tcp_break(c, CloseClient(tcp, tcp[c].sock))
  /\ UNCHANGED <<config, calls, udp, hist>>

\* connect, send_msg or recv_msg of the pong exchange raises, or the 2 second
\* timeout of the socket passes. An ack that does not get through is a
\* failure of this recv_msg.
tcp_task_pong_failed(c) ==
  /\ c \in DOMAIN tcp
  /\ tcp[c].pc = "pong_wait"
  /\ tcp_break(c, CloseClient(tcp, tcp[c].sock))
  /\ hist' = [hist EXCEPT !.lost = TRUE]
  /\ UNCHANGED <<config, calls, udp>>

\* the pong handler after "yield conn.send_msg(b'ack')": the peer is found
tcp_task_ack_sent(c) ==
  /\ c \in DOMAIN tcp
  /\ tcp[c].pc = "ack_sent"
  /\ found_peer(InstAt(tcp[c].to), c, tcp)
  /\ UNCHANGED <<config, requests, calls, udp>>

\* connect or send_msg of a socket made for one message raises: the sender
\* passes over it and the message never arrives
oneshot_failed(c) ==
  /\ c \in DOMAIN tcp
  /\ ~tcp[c].copen
  /\ tcp[c].sopen
  /\ tcp[c].pc = "recv_msg"
  /\ tcp[c].c2s # <<>>
  /\ tcp' = Drop(tcp, c)
  /\ hist' = [hist EXCEPT !.lost = TRUE]
  /\ UNCHANGED <<config, peers, objs, requests, calls, udp>>

----------------------------------------------------------------------------
(* RCI.locate(name, timeout=...) without a location and                    *)
(* AsynCoro.locate(name, timeout): the name is asked of every peer over    *)
(* _async_reply. The two differ in the verb, op.                           *)

LocateOps == {"locate_rci", "locate_peer"}

\* up to the loop: the request gets its event and its id, goes into _requests,
\* and the peers of this moment are listed (todo, each with its auth)
locate(i, op, name, timeout) ==
  /\ i \in up
  /\ Cardinality({r \in DOMAIN calls : calls[r].op \in LocateOps}) < MaxLocates
  /\ LET r == Len(objs) + 1
         req == [NetRequest(op, [NoKwargs EXCEPT !.name = name],
                            LocOf[i], NoLoc, NoneStr, "None")
                   EXCEPT !.event = "clear", !.id = r] IN
       /\ objs' = Append(objs, req)
       /\ requests' = [requests EXCEPT ![i] = @ \cup {r}]
       /\ calls' = (r :> [inst |-> i, op |-> op,
                          st |-> IF DOMAIN peers[i] = {} THEN "wait" ELSE "loop",
                          todo |-> [l \in DOMAIN peers[i] |-> peers[i][l].auth],
                          timeout |-> timeout, timedout |-> FALSE,
                          result |-> None]) @@ calls
  /\ UNCHANGED <<config, peers, tcp, udp, hist>>

\* one turn of the loop: "if req.event.is_set(): break", else the request
\* goes to the next peer with that peer's auth (_async_reply); after the last
\* peer the caller waits on the event
locate_loop(r) ==
  /\ r \in DOMAIN calls
  /\ calls[r].op \in LocateOps
  /\ calls[r].st = "loop"
  /\ IF objs[r].event = "set"
     THEN /\ calls' = [calls EXCEPT ![r].st = "returned", ![r].result = objs[r].reply]
          /\ UNCHANGED <<objs, tcp>>
     ELSE \E dst \in DOMAIN calls[r].todo :
            LET rest == [l \in DOMAIN calls[r].todo \ {dst} |-> calls[r].todo[l]]
                os == [objs EXCEPT ![r].auth = calls[r].todo[dst]] IN
              /\ FreeConns # {}
              /\ objs' = IF Listening(dst) THEN os ELSE objs
              /\ tcp' = IF Listening(dst)
                        THEN (NextConn :> OneShot(calls[r].inst, dst,
                                                  Serialize(os[r], r))) @@ tcp
                        ELSE tcp
              /\ calls' = [calls EXCEPT ![r].todo = rest,
                                        ![r].st = IF DOMAIN rest = {} THEN "wait"
                                                  ELSE "loop"]
  /\ UNCHANGED <<config, peers, requests, udp, hist>>

\* "yield req.event.wait(timeout)" returns True: the reply is returned
locate_reply(r) ==
  /\ r \in DOMAIN calls
  /\ calls[r].op \in LocateOps
  /\ calls[r].st = "wait"
  /\ objs[r].event = "set"
  /\ calls' = [calls EXCEPT ![r].st = "returned", ![r].result = objs[r].reply]
  /\ UNCHANGED <<config, peers, objs, requests, tcp, udp, hist>>

\* a mutant of locate_forget: the request stays in _requests after the timeout
locate_forget_not(rs, i, r) == rs

\* "RCI._asyncoro._requests.pop(req.id, None)" of the timeout path
locate_forget(rs, i, r) == [rs EXCEPT ![i] = @ \ {r}]

\* the wait returns False: the timeout passed with the event not set
locate_timeout(r) ==
  /\ r \in DOMAIN calls
  /\ calls[r].op \in LocateOps
  /\ calls[r].st = "wait"
  /\ calls[r].timeout # "None"
  /\ objs[r].event # "set"
  /\ requests' = locate_forget(requests, calls[r].inst, r)
  /\ objs' = [objs EXCEPT ![r].reply = None]
  /\ calls' = [calls EXCEPT ![r].st = "returned", ![r].result = None,
                            ![r].timedout = TRUE]
  /\ UNCHANGED <<config, peers, tcp, udp, hist>>

----------------------------------------------------------------------------
(* Two instances A and B that start with empty peer tables, find each      *)
(* other over UDP and shake hands, while user coroutines of A locate the RCI *)
(* "n" that B has registered.                                               *)

Secrets == {NoneStr, <<"s">>, <<"x">>}

\* the signature __init__ draws for an instance with a secret
SignatureOf(i, sec) == IF sec = NoneStr THEN NoneStr ELSE <<i>>

Init ==
  /\ up = {"A", "B"}
  /\ \E sa \in {NoneStr, <<"s">>} : \E sb \in Secrets :
       /\ secret = [i \in Inst |-> IF i = "A" THEN sa ELSE sb]
       /\ signature = [i \in Inst |-> SignatureOf(i, IF i = "A" THEN sa ELSE sb)]
  /\ \E vb \in {"v1", "v2"} : version = [i \in Inst |-> IF i = "B" THEN vb ELSE "v1"]
  /\ Registered([i \in Inst |-> IF i = "B" THEN {"n"} ELSE {}])
  /\ stream_peers = [i \in Inst |-> {}]
  /\ NoFiles
  /\ peers = [i \in Inst |-> EmptyDict]
  /\ objs = <<>>
  /\ requests = [i \in Inst |-> {}]
  /\ calls = EmptyDict
  /\ tcp = EmptyDict
  /\ udp = {}
  /\ hist = NoHist

Next ==
  \/ \E i \in Inst : udp_broadcast(i)
  \/ \E d \in udp : udp_recv(d)
  \/ \E c \in DOMAIN tcp : tcp_task_recv(c)
  \/ \E c \in DOMAIN tcp : tcp_task_pong_reply(c)
  \/ \E c \in DOMAIN tcp : tcp_task_pong_closed(c)
  \/ \E c \in DOMAIN tcp : tcp_task_pong_failed(c)
  \/ \E c \in DOMAIN tcp : tcp_task_ack_sent(c)
  \/ \E c \in DOMAIN tcp : tcp_task_drain(c)
  \/ \E c \in DOMAIN tcp : oneshot_failed(c)
  \/ \E timeout \in {"None", "t"} : locate("A", "locate_rci", "n", timeout)
  \/ \E r \in DOMAIN calls : locate_loop(r)
  \/ \E r \in DOMAIN calls : locate_reply(r)
  \/ \E r \in DOMAIN calls : locate_timeout(r)

Spec == Init /\ [][Next]_vars

----------------------------------------------------------------------------
(* Claims about discovery and the handshake, stated for Spec *)

LocA == LocOf["A"]

\* no ping or pong is under way: none waits to be read and no task is between
\* its pong and the installation of the peer
HandshakeIdle ==
  \A c \in DOMAIN tcp :
    /\ tcp[c].pc \notin {"pong_wait", "ack_sent"}
    /\ \A k \in DOMAIN tcp[c].c2s : tcp[c].c2s[k].name \notin {"ping", "pong"}

\* a TCP ping, sent by an instance that received the other's UDP ping, got to
\* its handler
PingHandled == \E j \in up : <<j, "ping">> \in hist.dispatched

\* C2: two instances with the same secret and version, no transport failure:
\* once one of them has answered the other's UDP ping and the ping/pong
\* exchange that follows is over, each has the other in its peer table, with
\* the other's own auth code as the entry's auth.
C2_HandshakeInstalls ==
  (/\ secret["A"] = secret["B"]
   /\ version["A"] = version["B"]
   /\ ~hist.lost
   /\ PingHandled
   /\ HandshakeIdle)
    => /\ LocB \in DOMAIN peers["A"]
       /\ peers["A"][LocB].auth = own_auth_code("B")
       /\ LocA \in DOMAIN peers["B"]
       /\ peers["B"][LocA].auth = own_auth_code("A")

\* both instances have the secret "s", both answered the other's UDP ping, and
\* all of it is over without a failure
C2_Witness ==
  /\ secret["A"] = <<"s">>
  /\ secret["B"] = <<"s">>
  /\ version["A"] = version["B"]
  /\ ~hist.lost
  /\ <<"A", "ping">> \in hist.dispatched
  /\ <<"B", "ping">> \in hist.dispatched
  /\ HandshakeIdle
  /\ LocB \in DOMAIN peers["A"]
  /\ LocA \in DOMAIN peers["B"]

\* C3: with different secrets neither instance ever has the other in its peer
\* table, and the only verb of the other that gets past the checks of
\* _tcp_task is ping.
C3_DifferentSecrets ==
  secret["A"] # secret["B"]
    => /\ LocB \notin DOMAIN peers["A"]
       /\ LocA \notin DOMAIN peers["B"]
       /\ \A d \in hist.dispatched : d[2] = "ping"

\* the secrets differ, a ping was handled and the pong it led to was turned
\* down for its auth
C3_Witness ==
  /\ secret["A"] # secret["B"]
  /\ PingHandled
  /\ \E j \in up : <<j, "pong", "auth">> \in hist.rejected
  /\ tcp = EmptyDict

\* C8: a locate for "n" that was in _requests of A when A installed B, so that
\* a copy of it went to B, which has "n" registered, is resolved with B's
\* handle: once every message has been handled, with no transport failure and
\* the caller not timed out, the event of the request is set and its reply is
\* the RCI of B.
C8_DrainedLocateResolved ==
  \A r \in DOMAIN calls :
    (/\ calls[r].op = "locate_rci"
     /\ calls[r].inst = "A"
     /\ <<r, LocB>> \in hist.drained
     /\ objs[r].kwargs.name \in rcis["B"]
     /\ ~hist.lost
     /\ ~calls[r].timedout
     /\ tcp = EmptyDict)
      => /\ objs[r].event = "set"
         /\ objs[r].reply = RciHandle(objs[r].kwargs.name, LocB)

----------------------------------------------------------------------------
(* Three instances A, B and C after discovery: each has the other two in   *)
(* its peer table. User coroutines of A locate the RCI "n", which B and C  *)
(* may have registered, and the peer named "B". A message that is lost is  *)
(* one that is never read.                                                 *)

\* the peer table of i once it has shaken hands with every other instance of
\* net, the workers waiting for requests
MeshPeers(i, net) ==
  [l \in {LocOf[j] : j \in net \ {i}} |->
     [Peer(peer_auth_code(i, signature[InstAt(l)])) EXCEPT !.pc = "wait"]]

\* the state once the instances of net have found each other
InitMesh(net) ==
  /\ up = net
  /\ secret = [i \in Inst |-> <<"s">>]
  /\ signature = [i \in Inst |-> SignatureOf(i, <<"s">>)]
  /\ version = [i \in Inst |-> "v1"]
  /\ \E nb, nc \in SUBSET {"n"} :
       Registered([i \in Inst |-> CASE i = "B" -> nb [] i = "C" -> nc [] OTHER -> {}])
  /\ stream_peers = [i \in Inst |-> {}]
  /\ NoFiles
  /\ peers = [i \in Inst |-> IF i \in net THEN MeshPeers(i, net) ELSE EmptyDict]
  /\ objs = <<>>
  /\ requests = [i \in Inst |-> {}]
  /\ calls = EmptyDict
  /\ tcp = EmptyDict
  /\ udp = {}
  /\ hist = [NoHist EXCEPT !.udp_sent = [i \in Inst |-> IF i \in net THEN 1 ELSE 0]]

InitLocate == InitMesh({"A", "B", "C"})

\* what the user coroutines of A ask for
LocateCalls ==
  {[op |-> "locate_rci", name |-> "n"], [op |-> "locate_peer", name |-> "B"]}

LocateCall ==
  \E k \in LocateCalls : \E timeout \in {"None", "t"} :
    locate("A", k.op, k.name, timeout)

NextLocate ==
  \/ LocateCall
  \/ \E r \in DOMAIN calls : locate_loop(r)
  \/ \E r \in DOMAIN calls : locate_reply(r)
  \/ \E r \in DOMAIN calls : locate_timeout(r)
  \/ \E c \in DOMAIN tcp : tcp_task_recv(c)

SpecLocate == InitLocate /\ [][NextLocate]_vars

----------------------------------------------------------------------------
(* Claims about locate and the replies to it, stated for SpecLocate *)

\* the message the task of connection c reads next
NextMsg(c) == Head(tcp[c].c2s)

\* the next message of connection c is past the auth and dst checks and has
\* the location of the instance that reads it as its src
IsAsyncReply(c) ==
  LET j == InstAt(tcp[c].to) IN
    /\ auth_ok(j, NextMsg(c))
    /\ NextMsg(c).dst \in {NoLoc, LocOf[j]}
    /\ NextMsg(c).src = LocOf[j]

\* the step of tcp_task_recv(c) on a reply whose id is in _requests: that entry
\* goes and no other, the request gets the reply and its event is set, and
\* the connection is closed
ReplyResolves(c) ==
  LET j == InstAt(tcp[c].to)
      id == NextMsg(c).id IN
    /\ requests' = [requests EXCEPT ![j] = @ \ {id}]
    /\ objs' = [objs EXCEPT ![id].reply = NextMsg(c).reply, ![id].event = "set"]
    /\ c \notin DOMAIN tcp'
    /\ peers' = peers

\* the step on a reply whose id is not there: nothing changes, the connection
\* is closed
ReplyIgnored(c) ==
  /\ requests' = requests
  /\ objs' = objs
  /\ peers' = peers
  /\ c \notin DOMAIN tcp'

\* no request was resolved twice
ResolvedOnce ==
  \A k1, k2 \in DOMAIN hist.resolutions :
    hist.resolutions[k1].obj = hist.resolutions[k2].obj => k1 = k2

\* C5: a message whose src is the reader's own location is an async reply: if
\* _requests has its id, that entry alone is removed, its reply and event are
\* set and the connection closed; if not, nothing changes. So a request is
\* resolved at most once, by a reply that carries its id.
C5_AsyncReply ==
  /\ []ResolvedOnce
  /\ [][\A c \in DOMAIN tcp :
          (tcp_task_recv(c) /\ IsAsyncReply(c))
            => IF NextMsg(c).id \in requests[InstAt(tcp[c].to)]
               THEN ReplyResolves(c) ELSE ReplyIgnored(c)]_vars

\* B and C both answered a locate of A: one reply resolved it, the other found
\* no entry
C5_Witness ==
  /\ Len(hist.resolutions) = 1
  /\ \E n \in LocateOps : <<"A", n, "id">> \in hist.rejected

\* the replies that resolved the request r
ResolutionsOf(r) ==
  {k \in DOMAIN hist.resolutions : hist.resolutions[k].obj = r}

\* the instance j has what the locate request req asks for
HasName(j, req) ==
  IF req.name = "locate_rci" THEN req.kwargs.name \in rcis[j]
  ELSE req.kwargs.name = NameOf[j]

\* C6: a broadcast locate sends one request id to all peers; it returns with
\* the handle of the reply that resolved it, or with None when the timeout
\* passed, and only then; a peer that does not have the name sends no reply.
C6_BroadcastLocate ==
  /\ \A c \in DOMAIN tcp : \A k \in DOMAIN tcp[c].c2s :
       LET msg == tcp[c].c2s[k] IN
         (msg.name \in LocateOps /\ msg.obj \in DOMAIN calls) => msg.id = msg.obj
  /\ \A rep \in hist.replies :
       rep.reply # None /\ HasName(rep.from, objs[rep.id])
  /\ \A r \in DOMAIN calls :
       (calls[r].op \in LocateOps /\ calls[r].st = "returned")
         => IF calls[r].timedout
            THEN calls[r].result = None /\ ResolutionsOf(r) = {}
            ELSE /\ calls[r].result # None
                 /\ \E k \in ResolutionsOf(r) :
                      calls[r].result = hist.resolutions[k].reply
                 /\ \E rep \in hist.replies :
                      rep.id = r /\ rep.reply = calls[r].result

\* C does not have "n" and got the locate request, B has it, and the locate
\* returned B's handle
C6_Witness ==
  /\ "n" \notin rcis["C"]
  /\ <<"C", "locate_rci">> \in hist.dispatched
  /\ \E r \in DOMAIN calls :
       /\ calls[r].op = "locate_rci"
       /\ calls[r].st = "returned"
       /\ calls[r].result = RciHandle("n", LocB)

\* C7: a locate call that has returned, by a reply or by the timeout, has left
\* nothing in _requests; after the timeout its reply is None.
C7_LocateForgets ==
  \A r \in DOMAIN calls :
    (calls[r].op \in LocateOps /\ calls[r].st = "returned")
      => /\ r \notin requests[calls[r].inst]
         /\ calls[r].timedout => (objs[r].reply = None /\ calls[r].result = None)

\* nobody has "n", the request went to B and to C, and the call timed out
C7_Witness ==
  /\ rcis["B"] = {}
  /\ rcis["C"] = {}
  /\ \E r \in DOMAIN calls :
       /\ calls[r].op = "locate_rci"
       /\ calls[r].st = "returned"
       /\ calls[r].timedout
       /\ <<"B", "locate_rci">> \in hist.dispatched
       /\ <<"C", "locate_rci">> \in hist.dispatched

----------------------------------------------------------------------------
(* The dispatcher against an outside party: A and B after discovery, with  *)
(* or without a secret; a user coroutine of A has called RCI.locate("n"),  *)
(* B, which has no such RCI, has read the request, and the caller waits.   *)
(* Somebody connects to A's port and sends messages of its own making.     *)

\* a serialized request as an outside party makes it
Forge(name, peer, src, dst, auth, id, reply) ==
  [Serialize(NetRequest(name, [PeerKwargs(peer, <<"z">>, "v1") EXCEPT !.name = "n"],
                        src, dst, auth, "None"), 0)
     EXCEPT !.id = id, !.reply = reply]

\* the messages sent to j: a pong and a locate_rci with the right and with a
\* wrong auth, a ping with a wrong auth, a pong for somebody else, a verb
\* that does not exist, and replies
\* (src is j's location) to the first and the second request, the last two
\* with a wrong auth, one of them named ping
Forged(j) ==
  LET good == own_auth_code(j)
      bad == <<"bad">>
      handle == RciHandle("n", LocX) IN
    {Forge("pong", LocX, NoLoc, LocOf[j], good, 0, None),
     Forge("pong", LocX, NoLoc, LocOf[j], bad, 0, None),
     Forge("locate_rci", LocX, NoLoc, LocOf[j], good, 0, None),
     Forge("locate_rci", LocX, NoLoc, LocOf[j], bad, 0, None),
     Forge("ping", LocX, NoLoc, LocOf[j], bad, 0, None),
     Forge("pong", LocX, NoLoc, LocX, good, 0, None),
     Forge("ping", LocX, NoLoc, LocX, bad, 0, None),
     Forge("locate_rci", LocX, LocOf[j], LocX, good, 1, handle),
     Forge("status", LocX, NoLoc, LocOf[j], good, 0, None),
     Forge("locate_rci", LocX, LocOf[j], NoLoc, good, 1, handle),
     Forge("locate_rci", LocX, LocOf[j], NoLoc, good, 2, handle),
     Forge("locate_rci", LocX, LocOf[j], NoLoc, bad, 1, handle),
     Forge("ping", LocX, LocOf[j], NoLoc, bad, 1, handle)}

\* _tcp_proc accepts whoever connects: the outside party sends one message to
\* j and closes
inject(j, msg) ==
  /\ j \in up
  /\ hist.injected < MaxInject
  /\ FreeConns # {}
  /\ tcp' = (NextConn :> OneShot("outside", LocOf[j], msg)) @@ tcp
  /\ hist' = [hist EXCEPT !.injected = @ + 1]
  /\ UNCHANGED <<config, peers, objs, requests, calls, udp>>

\* the request of the locate that is under way, as _async_reply left it
\* after it was sent to B
LocateUnderWay ==
  [NetRequest("locate_rci", [NoKwargs EXCEPT !.name = "n"], LocOf["A"], NoLoc,
              peer_auth_code("A", signature["B"]), "None")
     EXCEPT !.event = "clear", !.id = 1]

InitDispatch ==
  /\ up = {"A", "B"}
  /\ \E sec \in {NoneStr, <<"s">>} :
       /\ secret = [i \in Inst |-> sec]
       /\ signature = [i \in Inst |-> SignatureOf(i, sec)]
  /\ version = [i \in Inst |-> "v1"]
  /\ Registered([i \in Inst |-> {}])
  /\ stream_peers = [i \in Inst |-> {}]
  /\ NoFiles
  /\ peers = [i \in Inst |-> IF i \in up THEN MeshPeers(i, up) ELSE EmptyDict]
  /\ objs = <<LocateUnderWay>>
  /\ requests = [i \in Inst |-> IF i = "A" THEN {1} ELSE {}]
  /\ \E timeout \in {"None", "t"} :
       calls = 1 :> [inst |-> "A", op |-> "locate_rci", st |-> "wait",
                     todo |-> EmptyDict, timeout |-> timeout, timedout |-> FALSE,
                     result |-> None]
  /\ tcp = EmptyDict
  /\ udp = {}
  /\ hist = [NoHist EXCEPT !.udp_sent = [i \in Inst |-> IF i \in up THEN 1 ELSE 0],
                           !.dispatched = {<<"B", "locate_rci">>}]

NextDispatch ==
  \/ \E msg \in Forged("A") : inject("A", msg)
  \/ \E r \in DOMAIN calls : locate_reply(r)
  \/ \E r \in DOMAIN calls : locate_timeout(r)
  \/ \E c \in DOMAIN tcp : tcp_task_recv(c)
  \/ \E c \in DOMAIN tcp : tcp_task_ack_sent(c)
  \/ \E c \in DOMAIN tcp : tcp_task_drain(c)

SpecDispatch == InitDispatch /\ [][NextDispatch]_vars

----------------------------------------------------------------------------
(* Claims about the checks of the dispatcher, stated for SpecDispatch *)

\* the next message of connection c is not a ping and its auth is not the
\* auth code of the instance that reads it
BadAuth(c) ==
  /\ NextMsg(c).name # "ping"
  /\ NextMsg(c).auth # own_auth_code(InstAt(tcp[c].to))

\* the step of the task of c that drops the message: nothing is dispatched,
\* no reply goes out on c, no connection is made, the connection is closed,
\* and the peer table, the registries and _requests stay as they are
Dropped(c) ==
  /\ peers' = peers
  /\ rcis' = rcis
  /\ requests' = requests
  /\ objs' = objs
  /\ hist'.dispatched = hist.dispatched
  /\ hist'.replies = hist.replies
  /\ hist'.resolutions = hist.resolutions
  /\ DOMAIN tcp' \subseteq DOMAIN tcp
  /\ c \in DOMAIN tcp' => (~tcp'[c].sopen /\ tcp'[c].s2c = tcp[c].s2c)

\* the next message of c carries no auth, is for the instance that reads it,
\* which has no secret, and is not a reply
NoAuthNeeded(c) ==
  LET j == InstAt(tcp[c].to) IN
    /\ secret[j] = NoneStr
    /\ NextMsg(c).auth = NoneStr
    /\ NextMsg(c).dst \in {NoLoc, LocOf[j]}
    /\ NextMsg(c).src # LocOf[j]

\* C4: a message that is not a ping and whose auth is not the instance's own
\* auth code is never dispatched: the task closes the connection, sends no
\* reply, and leaves the peer table, the registries and _requests alone. An
\* instance without a secret dispatches a message whose auth is None.
C4_BadAuthDropped ==
  [][\A c \in DOMAIN tcp :
       tcp_task_recv(c)
         => /\ BadAuth(c) => Dropped(c)
            /\ NoAuthNeeded(c)
                 => <<InstAt(tcp[c].to), NextMsg(c).name>> \in hist'.dispatched]_vars

\* A has a secret and has turned down a pong and a locate_rci for their auth
C4_Witness ==
  /\ secret["A"] # NoneStr
  /\ <<"A", "pong", "auth">> \in hist.rejected
  /\ <<"A", "locate_rci", "auth">> \in hist.rejected

----------------------------------------------------------------------------
(* Removal of a peer, stated for SpecPipe *)

\* C11: a request that was in the worker's hands (popped from the queue, and
\* connecting, sending or awaiting its reply) when remove(location) terminated
\* the worker ends with reply None and its event set.
C11_RemoveAbortsInFlight ==
  \A r \in hist.aborted : objs[r].reply = None /\ objs[r].event = "set"

\* remove hit a request that was awaiting its reply, and the caller got None
C11_Witness ==
  \E r \in hist.aborted :
    /\ r \in Range(hist.transmitted["A"][LocB])
    /\ LocB \notin DOMAIN peers["A"]
    /\ calls[r].st = "returned" /\ calls[r].result = None /\ ~calls[r].timedout

----------------------------------------------------------------------------
(* The pipeline with two peers: instance A with the peers at B's and C's    *)
(* locations installed, and callers sending to both and to LocX             *)

LocC == LocOf["C"]

InitSend ==
  /\ up = {"A", "B", "C"}
  /\ secret = [i \in Inst |-> <<"s">>]
  /\ signature = [i \in Inst |-> <<i>>]
  /\ version = [i \in Inst |-> "v1"]
  /\ Registered([i \in Inst |-> {}])
  /\ stream_peers = [i \in Inst |-> {}]
  /\ NoFiles
  /\ \E stream \in BOOLEAN :
       peers = [i \in Inst |->
                  IF i = "A"
                  THEN [l \in {LocB, LocC} |->
                          [Peer(AuthCode(signature[InstAt(l)], secret["A"]))
                             EXCEPT !.stream = stream]]
                  ELSE EmptyDict]
  /\ objs = <<>>
  /\ requests = [i \in Inst |-> {}]
  /\ calls = EmptyDict
  /\ tcp = EmptyDict
  /\ udp = {}
  /\ hist = NoHist

\* the calls of PipeCalls, to either peer or to LocX
SendCall ==
  \E k \in PipeCalls : \E dst \in {LocB, LocC, LocX} :
    sync_reply("A", k.op, dst, k.timeout, k.alarm)

\* the workers take requests off their queues, and every connect fails
NextSend ==
  \/ SendCall
  \/ \E r \in DOMAIN calls : sync_reply_return(r)
  \/ \E l \in Locs : req_proc_start("A", l)
  \/ \E l \in Locs : req_proc_wake("A", l)
  \/ \E l \in Locs : req_proc_connect_failed("A", l)
  \/ \E l \in Locs : remove("A", l)

SpecSend == InitSend /\ [][NextSend]_vars

\* C12: send_req returns -1 and changes nothing when _Peer.peers has no entry
\* for req.dst (so for every call after remove(req.dst)); otherwise it appends
\* req at the tail of that peer's queue, sets reqs_pending and returns 0, and
\* no other peer's entry changes.
C12_SendReq ==
  [][Len(objs') = Len(objs) + 1 =>
       LET r == Len(objs')
           dst == objs'[r].dst IN
         IF dst \notin DOMAIN peers["A"]
         THEN calls'[r].ret = -1 /\ peers' = peers
         ELSE /\ calls'[r].ret = 0
              /\ DOMAIN peers'["A"] = DOMAIN peers["A"]
              /\ peers'["A"][dst] = [peers["A"][dst] EXCEPT !.reqs = Append(@, r),
                                                           !.reqs_pending = TRUE]
              /\ \A l \in DOMAIN peers["A"] \ {dst} : peers'["A"][l] = peers["A"][l]]_vars

\* a call made after remove(B's location) got -1 and left C's entry alone,
\* and the next request went to the tail of C's queue
C12_Witness ==
  /\ LocB \notin DOMAIN peers["A"]
  /\ Len(objs) = 2
  /\ objs[1].dst = LocB /\ calls[1].ret = -1
  /\ objs[2].dst = LocC /\ calls[2].ret = 0
  /\ peers["A"][LocC].reqs = <<2>>

----------------------------------------------------------------------------
(* Connections of a peer that does not stream, stated for SpecPipe *)

----------------------------------------------------------------------------
(* The dispatcher and its clients: instance A, with B and C installed as   *)
(* its peers, serves connections over which a client sends requests and    *)
(* reads what comes back.                                                   *)

MaxClients == 1

\* a serialized request as a client of j makes it
Request(name, kwname, peer, src, dst, auth, id) ==
  [Serialize(NetRequest(name, [NoKwargs EXCEPT !.name = kwname, !.peer = peer],
                        src, dst, auth, "None"), 0)
     EXCEPT !.id = id]

\* the terminate requests sent to j: for a peer in the table, for a location
\* that is not in it, without a peer, with src set, and with a wrong auth
Terminates(j) ==
  LET good == own_auth_code(j) IN
    {Request("terminate", "", LocB, NoLoc, LocOf[j], good, 0),
     Request("terminate", "", LocX, NoLoc, NoLoc, good, 0),
     Request("terminate", "", NoLoc, NoLoc, LocOf[j], good, 0),
     Request("terminate", "", LocB, LocB, LocOf[j], good, 0),
     Request("terminate", "", LocB, NoLoc, LocOf[j], <<"bad">>, 0)}

\* the locate_peer requests sent to j: for its own name and for another, to
\* its location and to nobody in particular, synchronous (src None) and
\* asynchronous ones of a peer and of a stranger
LocatePeers(j) ==
  LET good == own_auth_code(j)
      other == CHOOSE n \in {NameOf[i] : i \in Inst} : n # NameOf[j] IN
    {Request("locate_peer", NameOf[j], NoLoc, NoLoc, NoLoc, good, 0),
     Request("locate_peer", NameOf[j], NoLoc, LocB, LocOf[j], good, 7),
     Request("locate_peer", NameOf[j], NoLoc, LocX, NoLoc, good, 7),
     Request("locate_peer", other, NoLoc, NoLoc, LocOf[j], good, 0),
     Request("locate_peer", other, NoLoc, LocB, LocOf[j], good, 7),
     Request("locate_peer", other, NoLoc, NoLoc, NoLoc, good, 0),
     Request("locate_peer", other, NoLoc, LocB, NoLoc, good, 7)}

\* what a client may send to j first
Requests(j) == Terminates(j) \cup LocatePeers(j)

\* what it may send after a terminate request on the same connection
FollowUps(j) ==
  {Request("status", "", NoLoc, NoLoc, LocOf[j], own_auth_code(j), 0),
   Request("terminate", "", LocC, NoLoc, LocOf[j], own_auth_code(j), 0)}

\* _tcp_proc accepts a connection: the client sends its requests one after
\* another and keeps the connection open for the replies
client(j, msgs) ==
  /\ j \in up
  /\ hist.injected < MaxClients
  /\ FreeConns # {}
  /\ tcp' = (NextConn :> [NewConn("client", LocOf[j]) EXCEPT !.c2s = msgs]) @@ tcp
  /\ hist' = [hist EXCEPT !.injected = @ + 1]
  /\ UNCHANGED <<config, peers, objs, requests, calls, udp>>

\* the client closes its end
client_close(c) ==
  /\ c \in DOMAIN tcp
  /\ tcp[c].from = "client"
  /\ tcp[c].copen
  /\ tcp' = CloseClient(tcp, c)
  /\ UNCHANGED <<config, peers, objs, requests, calls, udp, hist>>

InitServe ==
  /\ up = {"A", "B", "C"}
  /\ \E sec \in {NoneStr, <<"s">>} :
       /\ secret = [i \in Inst |-> sec]
       /\ signature = [i \in Inst |-> SignatureOf(i, sec)]
  /\ version = [i \in Inst |-> "v1"]
  /\ \E na \in SUBSET {"n"} : Registered([i \in Inst |-> IF i = "A" THEN na ELSE {}])
  /\ stream_peers = [i \in Inst |-> {}]
  /\ NoFiles
  /\ peers = [i \in Inst |-> MeshPeers(i, up)]
  /\ objs = <<>>
  /\ requests = [i \in Inst |-> {}]
  /\ calls = EmptyDict
  /\ tcp = EmptyDict
  /\ udp = {}
  /\ hist = [NoHist EXCEPT !.udp_sent = [i \in Inst |-> 1]]

NextServe ==
  \/ \E m1 \in Requests("A") : client("A", <<m1>>)
  \/ \E m1 \in Terminates("A") : \E m2 \in FollowUps("A") : client("A", <<m1, m2>>)
  \/ \E c \in DOMAIN tcp : client_close(c)
  \/ \E c \in DOMAIN tcp : tcp_task_recv(c)

SpecServe == InitServe /\ [][NextServe]_vars

----------------------------------------------------------------------------
(* Claims about the verbs of the dispatcher, stated for SpecServe *)

\* the next message of connection c is a request the reader's checks let
\* through to the verbs: the auth is the reader's, dst is None or the reader's
\* location, and it is no reply to a request of the reader
Authenticated(c) ==
  LET j == InstAt(tcp[c].to) IN
    /\ NextMsg(c).auth = own_auth_code(j)
    /\ NextMsg(c).dst \in {NoLoc, LocOf[j]}
    /\ NextMsg(c).src # LocOf[j]

\* C14: on an authenticated terminate request (a synchronous request: src is
\* None) the dispatcher removes the peer named in kwargs.peer from
\* _Peer.peers, replies ack and closes the connection with whatever else was
\* sent on it unread; no other entry of _Peer.peers changes.
C14_Terminate ==
  [][\A c \in DOMAIN tcp :
       (/\ tcp_task_recv(c)
        /\ Authenticated(c)
        /\ NextMsg(c).name = "terminate"
        /\ NextMsg(c).src = NoLoc)
         => LET j == InstAt(tcp[c].to)
                peer == NextMsg(c).kwargs.peer IN
              /\ DOMAIN peers'[j] = DOMAIN peers[j] \ {peer}
              /\ \A l \in DOMAIN peers'[j] : peers'[j][l] = peers[j][l]
              /\ \A i \in Inst \ {j} : peers'[i] = peers[i]
              /\ IF tcp[c].copen
                 THEN /\ c \in DOMAIN tcp'
                      /\ tcp'[c].s2c = Append(tcp[c].s2c, Bytes("ack"))
                      /\ ~tcp'[c].sopen
                      /\ tcp'[c].c2s = <<>>
                 ELSE c \notin DOMAIN tcp'
              /\ hist'.dispatched = hist.dispatched \cup {<<j, "terminate">>}]_vars

\* A removed B on a terminate request: the client has its ack, the connection
\* is closed, and C is still a peer of A
C14_Witness ==
  /\ LocB \notin DOMAIN peers["A"]
  /\ LocC \in DOMAIN peers["A"]
  /\ hist.dispatched = {<<"A", "terminate">>}
  /\ \E c \in DOMAIN tcp : ~tcp[c].sopen /\ tcp[c].s2c = <<Bytes("ack")>>

----------------------------------------------------------------------------
(* The answer to a locate request, stated for Spec *)

\* C15: for an authenticated locate request whose name is registered at the
\* receiver, the receiver always sends a reply that carries the handle: with
\* the request's id over a new connection to req.src when req.src is set, on
\* the connection of the request when it is not.
C15_LocateAlwaysAnswered ==
  [][\A c \in DOMAIN tcp :
       (/\ tcp_task_recv(c)
        /\ Authenticated(c)
        /\ NextMsg(c).name = "locate_rci"
        /\ NextMsg(c).kwargs.name \in rcis[InstAt(tcp[c].to)])
         => LET j == InstAt(tcp[c].to)
                msg == NextMsg(c)
                handle == RciHandle(msg.kwargs.name, LocOf[j]) IN
              IF msg.src # NoLoc
              THEN \E d \in DOMAIN tcp' \ DOMAIN tcp :
                     /\ tcp'[d].to = msg.src
                     /\ tcp'[d].c2s # <<>>
                     /\ Head(tcp'[d].c2s).id = msg.id
                     /\ Head(tcp'[d].c2s).reply = handle
              ELSE tcp[c].copen =>
                     (c \in DOMAIN tcp' /\ tcp'[c].s2c = Append(tcp[c].s2c, handle))]_vars

----------------------------------------------------------------------------
(* The answers of the dispatcher, stated for SpecServe *)

\* the step of the task of c sends no reply: nothing is written on c and no
\* connection is made
NotReplied(c) ==
  /\ DOMAIN tcp' \subseteq DOMAIN tcp
  /\ c \in DOMAIN tcp' => tcp'[c].s2c = tcp[c].s2c
  /\ hist'.replies = hist.replies

\* the step of the task of c replies value to the request it read: on c when
\* the request has no src, else over a new connection to src, with the id of
\* the request, when src is a peer of the reader
Replied(c, value) ==
  LET j == InstAt(tcp[c].to)
      msg == NextMsg(c) IN
    IF msg.src = NoLoc
    THEN /\ DOMAIN tcp' \subseteq DOMAIN tcp
         /\ tcp[c].copen => (c \in DOMAIN tcp' /\ tcp'[c].s2c = Append(tcp[c].s2c, value))
    ELSE IF msg.src \in DOMAIN peers[j]
    THEN /\ c \in DOMAIN tcp' => tcp'[c].s2c = tcp[c].s2c
         /\ \E d \in DOMAIN tcp' \ DOMAIN tcp :
              /\ tcp'[d].to = msg.src
              /\ tcp'[d].c2s = <<[msg EXCEPT !.auth = peers[j][msg.src].auth,
                                             !.reply = value]>>
    ELSE NotReplied(c)

----------------------------------------------------------------------------
(* Remote invocation: coroutines of A call the RCI named n of B, and one   *)
(* whose location is LocX, through A's workers; B's tasks serve them.      *)

InitRci == InitMesh({"A", "B"})

NextRci ==
  \/ \E l \in {LocB, LocX} : RCI_call("A", "n", l)
  \/ \E r \in DOMAIN calls : sync_reply_return(r)
  \/ \E r \in DOMAIN calls : sync_reply_alarm(r)
  \/ \E l \in Locs : req_proc_wake("A", l)
  \/ \E l \in Locs : req_proc_connected("A", l)
  \/ \E l \in Locs : req_proc_connect_failed("A", l)
  \/ \E l \in Locs : req_proc_sent("A", l)
  \/ \E l \in Locs : req_proc_reply("A", l)
  \/ \E l \in Locs : req_proc_recv_failed("A", l)
  \/ \E c \in DOMAIN tcp : tcp_task_recv(c)

SpecRci == InitRci /\ [][NextRci]_vars

\* what the callers of rci(*args, **kwargs) that are back got
RciOutcomes ==
  \A r \in DOMAIN calls :
    (calls[r].op = "run_rci" /\ calls[r].st = "returned")
      => LET out == RCI_call_result(calls[r].result) IN
           IF calls[r].timedout \/ r \in hist.failed
           THEN out = [raised |-> FALSE, value |-> None]
           ELSE IF objs[r].kwargs.name \notin rcis[InstAt(objs[r].dst)]
           THEN out = [raised |-> TRUE, value |-> Exc("not registered")]
           ELSE \/ ~out.raised /\ out.value \in hist.spawned
                \/ out = [raised |-> TRUE, value |-> Exc("traceback")]

\* C17: a run_rci request is answered with a new local Coro when an RCI has
\* the name, and with an Exception when none has or the Coro cannot be made.
\* The caller's rci(*args, **kwargs) returns that Coro, returns None when the
\* reply is None (the 2 s timeout passed, or the transport failed), and raises
\* when the reply is an Exception.
C17_RunRci ==
  /\ []RciOutcomes
  /\ [][\A c \in DOMAIN tcp :
          (/\ tcp_task_recv(c)
           /\ Authenticated(c)
           /\ NextMsg(c).name = "run_rci"
           /\ NextMsg(c).src = NoLoc
           /\ NextMsg(c).dst = tcp[c].to
           /\ tcp[c].copen)
            => LET j == InstAt(tcp[c].to)
                   reply == tcp'[c].s2c[Len(tcp'[c].s2c)] IN
                 /\ Len(tcp'[c].s2c) = Len(tcp[c].s2c) + 1
                 /\ IF reply.kind = "Coro"
                    THEN /\ NextMsg(c).kwargs.name \in rcis[j]
                         /\ reply.loc = LocOf[j]
                         /\ reply \notin hist.spawned
                         /\ hist'.spawned = hist.spawned \cup {reply}
                    ELSE /\ reply.kind = "Exception"
                         /\ hist'.spawned = hist.spawned]_vars

\* one caller has the Coro that B made for it, and for another the Exception
\* of B's reply was raised
C17_Witness ==
  \E r, q \in DOMAIN calls :
    /\ calls[r].st = "returned" /\ calls[r].result \in hist.spawned
    /\ ~RCI_call_result(calls[r].result).raised
    /\ calls[q].st = "returned" /\ RCI_call_result(calls[q].result).raised

----------------------------------------------------------------------------
(* RCI.register and RCI.unregister: coroutines of A register and unregister *)
(* the RCI objects of A's process under their own and under given names.    *)

\* the value register returns for the RCI k of instance i: -1 for an RCI of
\* another location, for a method that is no generator function, and for a
\* name that is taken
register_ret(i, k, name) ==
  LET rci == RCIs[i][k]
      key == IF name = "" THEN rci._name ELSE name IN
    IF rci._location # LocOf[i] THEN -1
    ELSE IF rci._method # "generator" THEN -1
    ELSE IF key \in DOMAIN rci_of[i] THEN -1
    ELSE 0

\* rci.register(name) for the RCI k of instance i; "" stands for no name
\* given. Past the two checks a name that is given becomes the RCI's _name,
\* whether it is taken or not.
register(i, k, name) ==
  LET rci == RCIs[i][k]
      checked == rci._location = LocOf[i] /\ rci._method = "generator"
      key == IF name = "" THEN rci._name ELSE name IN
    /\ RCIs' = IF checked THEN [RCIs EXCEPT ![i][k]._name = key] ELSE RCIs
    /\ rci_of' = IF register_ret(i, k, name) = 0
                 THEN [rci_of EXCEPT ![i] = (key :> k) @@ @]
                 ELSE rci_of
    /\ hist' = [hist EXCEPT !.rci_call = [op |-> "register", rci |-> k,
                                          ret |-> register_ret(i, k, name),
                                          before |-> rci_of[i]]]
    /\ UNCHANGED <<up, secret, signature, version, stream_peers, max_file_size,
                   files, peers, objs, requests, calls, tcp, udp>>

\* rci.unregister(): whatever _rcis holds under the RCI's _name is popped
unregister(i, k) ==
  LET rci == RCIs[i][k]
      found == rci._location = LocOf[i] /\ rci._name \in DOMAIN rci_of[i] IN
    /\ rci_of' = IF found THEN [rci_of EXCEPT ![i] = Drop(@, rci._name)] ELSE rci_of
    /\ hist' = [hist EXCEPT !.rci_call = [op |-> "unregister", rci |-> k,
                                          ret |-> IF found THEN 0 ELSE -1,
                                          before |-> rci_of[i]]]
    /\ UNCHANGED <<up, secret, signature, version, RCIs, stream_peers, max_file_size,
                   files, peers, objs, requests, calls, tcp, udp>>

\* the names coroutines register under; "" is register() without a name
RciNames == {"", "a", "b"}

\* A's process has two RCIs of generator functions, one of a plain function,
\* and one that was located at B
InitRegister ==
  /\ up = {"A", "B"}
  /\ secret = [i \in Inst |-> <<"s">>]
  /\ signature = [i \in Inst |-> <<i>>]
  /\ version = [i \in Inst |-> "v1"]
  /\ rci_of = [i \in Inst |-> EmptyDict]
  /\ \E nm \in {"", "a"} :
       RCIs = [i \in Inst |->
                 IF i = "A"
                 THEN <<RCI("a", LocA, "generator"), RCI("b", LocA, "generator"),
                        RCI(nm, LocA, "function"), RCI("a", LocB, "generator")>>
                 ELSE <<>>]
  /\ stream_peers = [i \in Inst |-> {}]
  /\ NoFiles
  /\ peers = [i \in Inst |-> EmptyDict]
  /\ objs = <<>>
  /\ requests = [i \in Inst |-> {}]
  /\ calls = EmptyDict
  /\ tcp = EmptyDict
  /\ udp = {}
  /\ hist = NoHist

NextRegister ==
  \/ \E k \in DOMAIN RCIs["A"] : \E name \in RciNames : register("A", k, name)
  \/ \E k \in DOMAIN RCIs["A"] : unregister("A", k)

SpecRegister == InitRegister /\ [][NextRegister]_vars

\* C18: register returns -1 and leaves _rcis as it is when the name is taken,
\* when the RCI's location is not this instance's, or when its method is no
\* generator function; otherwise it maps the name to this RCI and returns 0.
\* So no register overwrites a registered name, and a register followed by
\* the unregister of the same RCI gives back the _rcis from before the
\* register.
C18_RegisterUnregister ==
  [][/\ \A k \in DOMAIN RCIs["A"] : \A name \in RciNames :
          register("A", k, name)
            => LET rci == RCIs["A"][k]
                   key == IF name = "" THEN rci._name ELSE name IN
                 IF \/ key \in DOMAIN rci_of["A"]
                    \/ rci._location # LocA
                    \/ rci._method # "generator"
                 THEN hist'.rci_call.ret = -1 /\ rci_of' = rci_of
                 ELSE /\ hist'.rci_call.ret = 0
                      /\ rci_of'["A"] = (key :> k) @@ rci_of["A"]
     /\ \A k \in DOMAIN RCIs["A"] :
          (/\ unregister("A", k)
           /\ hist.rci_call.op = "register"
           /\ hist.rci_call.rci = k)
            => rci_of'["A"] = hist.rci_call.before]_vars


\* ---------------------------------------------------------------------------
\* File transfer: clients send send_file and del_file requests to A
\* ---------------------------------------------------------------------------

\* the files on A's host when A starts: one in a directory beside the prefix,
\* one in a directory whose name starts with the prefix, and with there set
\* one below the prefix
FilesAtStart(there) ==
  LET outside == (<<Sep, "q", Sep, "f">> :> StatBuf(1, 10, "644"))
                   @@ (<<Sep, "p", "q", Sep, "f">> :> StatBuf(1, 15, "644")) IN
    IF there THEN (<<Sep, "p", Sep, "f">> :> StatBuf(1, 11, "644")) @@ outside
    ELSE outside

\* the values of dest_path: None, the empty string, a directory below the
\* prefix, the parent, two siblings through the parent, an absolute path
DestPaths ==
  {NoneStr, <<>>, <<"d">>, <<".", ".">>, <<".", ".", Sep, "p", "q">>,
   <<".", ".", Sep, "q">>, <<Sep, "q">>}

\* a file request to j as its client serialises it
FileRequest(j, name, dest_path, stat_buf, overwrite, src, dst, auth) ==
  Serialize(NetRequest(name, [NoKwargs EXCEPT !.file = <<"x", Sep, "f">>,
                                              !.dest_path = dest_path,
                                              !.stat_buf = stat_buf,
                                              !.overwrite = overwrite],
                       src, dst, auth, "None"), 0)

\* the send_file requests: every dest_path with one stat_buf, and for the
\* target below the prefix the stat_bufs that agree with the file there or
\* differ in mtime, size or mode, with and without overwrite; one request
\* for an empty file, one with src set and one with a wrong auth
SendFiles(j) ==
  LET good == own_auth_code(j) IN
    {FileRequest(j, "send_file", d, StatBuf(1, 10, "644"), TRUE, NoLoc, LocOf[j], good) :
       d \in DestPaths}
    \cup {FileRequest(j, "send_file", NoneStr, sb, ow, NoLoc, LocOf[j], good) :
            sb \in {StatBuf(1, 10, "644"), Stat(1, 12, 13, "644"), StatBuf(2, 10, "644"),
                    StatBuf(1, 10, "600")},
            ow \in BOOLEAN}
    \cup {FileRequest(j, "send_file", NoneStr, Stat(0, 12, 10, "644"), TRUE, NoLoc, LocOf[j], good),
          FileRequest(j, "send_file", NoneStr, StatBuf(1, 10, "644"), TRUE, LocB, LocOf[j], good),
          FileRequest(j, "send_file", NoneStr, StatBuf(1, 10, "644"), TRUE, NoLoc, LocOf[j],
                      <<"bad">>)}

\* the del_file requests: every dest_path, and one with src set
DelFiles(j) ==
  LET good == own_auth_code(j) IN
    {FileRequest(j, "del_file", d, NoStat, FALSE, NoLoc, LocOf[j], good) : d \in DestPaths}
    \cup {FileRequest(j, "del_file", NoneStr, NoStat, FALSE, LocB, LocOf[j], good)}

InitFiles ==
  /\ up = {"A", "B"}
  /\ secret = [i \in Inst |-> <<"s">>]
  /\ signature = [i \in Inst |-> SignatureOf(i, <<"s">>)]
  /\ version = [i \in Inst |-> "v1"]
  /\ Registered([i \in Inst |-> {}])
  /\ stream_peers = [i \in Inst |-> {}]
  /\ \E max \in {0, 1} : max_file_size = [i \in Inst |-> IF i = "A" THEN max ELSE 0]
  /\ \E there \in BOOLEAN :
       files = [i \in Inst |-> IF i = "A" THEN FilesAtStart(there) ELSE EmptyDict]
  /\ peers = [i \in Inst |-> MeshPeers(i, up)]
  /\ objs = <<>>
  /\ requests = [i \in Inst |-> {}]
  /\ calls = EmptyDict
  /\ tcp = EmptyDict
  /\ udp = {}
  /\ hist = [NoHist EXCEPT !.udp_sent = [i \in Inst |-> 1]]

\* the send_file requests whose file is sent behind them: the well-formed
\* ones that may replace a file
WithData(j) ==
  {m \in SendFiles(j) :
     /\ m.kwargs.overwrite
     /\ m.kwargs.dest_path \in {NoneStr, <<".", ".", Sep, "p", "q">>}
     /\ m.src = NoLoc
     /\ m.auth = own_auth_code(j)}

\* a client sends a request alone, or a send_file request and behind it the
\* whole file, one byte less or one byte more, or behind the request for an
\* empty file a del_file request
NextFiles ==
  \/ \E m \in SendFiles("A") \cup DelFiles("A") : client("A", <<m>>)
  \/ \E m \in WithData("A") : \E short \in -1..1 :
       /\ m.kwargs.stat_buf.st_size > 0
       /\ m.kwargs.stat_buf.st_size - short > 0
       /\ short = -1 => m.kwargs.stat_buf.st_atime # m.kwargs.stat_buf.st_mtime
       /\ client("A", <<m, Data(m.kwargs.stat_buf.st_size - short)>>)
  \/ \E m \in WithData("A") : \E d \in DelFiles("A") :
       /\ m.kwargs.stat_buf.st_size = 0
       /\ d.kwargs.dest_path = <<"d">>
       /\ client("A", <<m, d>>)
  \/ \E c \in DOMAIN tcp : client_close(c)
  \/ \E c \in DOMAIN tcp : tcp_task_recv(c)
  \/ \E c \in DOMAIN tcp : tcp_task_send_file(c)

SpecFiles == InitFiles /\ [][NextFiles]_vars

\* the path is the directory or lies below it
Under(path, dir) == path = dir \/ startswith(path, dir \o <<Sep>>)

\* the target a file request names, normalised
Target(kwargs) ==
  abspath(join(dest_path_prefix,
               IF kwargs.dest_path = NoneStr THEN basename(kwargs.file)
               ELSE join(kwargs.dest_path, basename(kwargs.file))))

\* the task of connection c reads a well-formed synchronous request of this
\* name
Handles(c, name) ==
  /\ tcp_task_recv(c)
  /\ Authenticated(c)
  /\ NextMsg(c).name = name
  /\ NextMsg(c).src = NoLoc
  /\ NextMsg(c).dst = LocOf[InstAt(tcp[c].to)]

\* C19: a send_file or del_file request whose normalised target lies outside
\* the directory dest_path_prefix is answered -1 and no file is created,
\* overwritten or deleted
C19_Containment ==
  [][\A c \in DOMAIN tcp :
       (/\ Handles(c, "send_file") \/ Handles(c, "del_file")
        /\ ~Under(Target(NextMsg(c).kwargs), dest_path_prefix))
         => /\ Replied(c, IntVal(-1))
            /\ files' = files]_vars

FinalStatus(c, v) ==
  /\ DOMAIN tcp' \subseteq DOMAIN tcp
  /\ tcp[c].copen => (c \in DOMAIN tcp' /\ tcp'[c].s2c = Append(tcp[c].s2c, v))

\* what is left to read on connection c is rest
LeftToRead(c, rest) == c \in DOMAIN tcp' => tcp'[c].c2s = rest

\* C22: in the payload phase of send_file, with the target still in place,
\* the receiver takes st_size bytes and no more from the connection; when
\* fewer came before the stream ended the target is deleted and the final
\* status is -1; when all came the final status is 0 and the target has the
\* size, atime, mtime and mode of stat_buf; for st_size 0 nothing is read
C22_PayloadPhase ==
  [][\A c \in DOMAIN tcp :
       (/\ tcp_task_send_file(c)
        /\ send_file_tgt(tcp[c].req.kwargs) \in DOMAIN files[InstAt(tcp[c].to)])
         => LET j == InstAt(tcp[c].to)
                stat_buf == tcp[c].req.kwargs.stat_buf
                tgt == send_file_tgt(tcp[c].req.kwargs)
                n == IF tcp[c].c2s = <<>> THEN 0 ELSE Head(tcp[c].c2s).id
                others == \A f \in DOMAIN files[j] \ {tgt} :
                            f \in DOMAIN files'[j] /\ files'[j][f] = files[j][f]
                saved == /\ DOMAIN files'[j] = DOMAIN files[j]
                         /\ files'[j][tgt] = Stat(stat_buf.st_size, stat_buf.st_atime,
                                                  stat_buf.st_mtime, stat_buf.st_mode)
                         /\ others IN
              IF stat_buf.st_size = 0
              THEN FinalStatus(c, IntVal(0)) /\ saved /\ LeftToRead(c, tcp[c].c2s)
              ELSE IF n < stat_buf.st_size
              THEN /\ FinalStatus(c, IntVal(-1))
                   /\ DOMAIN files'[j] = DOMAIN files[j] \ {tgt}
                   /\ others
              ELSE /\ FinalStatus(c, IntVal(0))
                   /\ saved
                   /\ LeftToRead(c, IF n = stat_buf.st_size THEN Tail(tcp[c].c2s)
                                    ELSE <<Data(n - stat_buf.st_size)>> \o Tail(tcp[c].c2s))]_vars

\* a file of one byte came whole, the final status was 0 and the target has
\* the atime 12 and the mtime 13 of stat_buf
C22_Witness ==
  \E c \in DOMAIN tcp :
    /\ tcp[c].s2c = <<IntVal(0), IntVal(0)>>
    /\ tcp[c].c2s = <<>>
    /\ files["A"][<<Sep, "p", Sep, "f">>] = Stat(1, 12, 13, "644")


\* ---------------------------------------------------------------------------
\* AsynCoro.send_file: A sends files of its host to B, one call after another
\* ---------------------------------------------------------------------------

MaxSends == 2

\* str.strip() for blanks
RECURSIVE lstrip(_)
lstrip(s) == IF s # <<>> /\ Head(s) = " " THEN lstrip(Tail(s)) ELSE s

RECURSIVE rstrip(_)
rstrip(s) ==
  IF s # <<>> /\ s[Len(s)] = " " THEN rstrip(SubSeq(s, 1, Len(s) - 1)) ELSE s

strip(s) == rstrip(lstrip(s))

\* the modes with the owner's read bit: "S_IMODE(st_mode) & S_IREAD"
S_IREAD == {"644", "600"}

\* dest_path as send_file passes it on: a string that is not empty is stripped
send_file_dest_path(dest_path) ==
  IF dest_path # NoneStr /\ dest_path # <<>> THEN strip(dest_path) ELSE dest_path

\* send_file returns -1 before it connects: the file cannot be stat'ed or is
\* not readable, dest_path is absolute, or there is no peer at location
send_file_refused(i, location, file, dest_path) ==
  \/ file \notin DOMAIN files[i]
  \/ files[i][file].st_mode \notin S_IREAD
  \/ /\ dest_path # NoneStr
     /\ dest_path # <<>>
     /\ join(<<Sep>>, strip(dest_path)) = strip(dest_path)
  \/ location \notin DOMAIN peers[i]

\* the request send_file makes, with the peer's auth
send_file_req(i, location, file, dest_path, overwrite) ==
  NetRequest("send_file",
             [NoKwargs EXCEPT !.file = basename(file), !.stat_buf = files[i][file],
                              !.overwrite = overwrite,
                              !.dest_path = send_file_dest_path(dest_path)],
             NoLoc, location, peers[i][location].auth, "None")

\* a call of send_file up to "yield sock.connect(...)"; seen is what is on the
\* host of the peer at this moment
send_file_call(i, location, file, dest_path, overwrite) ==
  /\ i \in up
  /\ Cardinality(DOMAIN calls) < MaxSends
  /\ \A k \in DOMAIN calls : calls[k].st = "returned"
  /\ LET k == Cardinality(DOMAIN calls) + 1
         refused == send_file_refused(i, location, file, dest_path) IN
       calls' = (k :> [inst |-> i, op |-> "send_file", location |-> location,
                       file |-> file, dest_path |-> dest_path, overwrite |-> overwrite,
                       req |-> IF refused THEN NoMsg
                               ELSE Serialize(send_file_req(i, location, file, dest_path,
                                                            overwrite), 0),
                       st |-> IF refused THEN "returned" ELSE "connect",
                       result |-> IF refused THEN IntVal(-1) ELSE None,
                       sock |-> 0, exc |-> FALSE, sent |-> 0,
                       seen |-> IF Listening(location) THEN files[InstAt(location)]
                                ELSE EmptyDict]) @@ calls
  /\ UNCHANGED <<config, peers, objs, requests, tcp, udp, hist>>

\* "yield sock.connect(...)", "yield sock.send_msg(serialize(req))"
send_file_connect(k) ==
  /\ k \in DOMAIN calls
  /\ calls[k].st = "connect"
  /\ Listening(calls[k].location)
  /\ FreeConns # {}
  /\ tcp' = (NextConn :> [NewConn(calls[k].inst, calls[k].location) EXCEPT
                            !.c2s = <<calls[k].req>>]) @@ tcp
  /\ calls' = [calls EXCEPT ![k].st = "recv_reply", ![k].sock = NextConn]
  /\ UNCHANGED <<config, peers, objs, requests, udp, hist>>

\* what send_file returns after the file is sent: 0 for the answer 0, else -1
send_file_result(resp) == IF resp = IntVal(0) THEN IntVal(0) ELSE IntVal(-1)

\* "reply = yield sock.recv_msg()": on 0 the file is read and sent, all of it,
\* and the call waits for the second answer; any other reply is returned
send_file_recv_reply(k) ==
  /\ k \in DOMAIN calls
  /\ calls[k].st = "recv_reply"
  /\ calls[k].sock \in DOMAIN tcp
  /\ tcp[calls[k].sock].s2c # <<>>
  /\ LET c == calls[k].sock
         reply == Head(tcp[c].s2c)
         t == [tcp EXCEPT ![c].s2c = Tail(@)]
         size == files[calls[k].inst][calls[k].file].st_size IN
       IF reply = IntVal(0)
       THEN /\ tcp' = IF size > 0 /\ t[c].sopen
                      THEN [t EXCEPT ![c].c2s = Append(@, Data(size))] ELSE t
            /\ calls' = [calls EXCEPT ![k].st = "recv_resp", ![k].sent = size]
       ELSE /\ tcp' = CloseClient(t, c)
            /\ calls' = [calls EXCEPT ![k].st = "returned", ![k].result = reply]
  /\ UNCHANGED <<config, peers, objs, requests, udp, hist>>

\* "resp = yield sock.recv_msg()" after the file is sent
send_file_recv_resp(k) ==
  /\ k \in DOMAIN calls
  /\ calls[k].st = "recv_resp"
  /\ calls[k].sock \in DOMAIN tcp
  /\ tcp[calls[k].sock].s2c # <<>>
  /\ LET c == calls[k].sock
         resp == Head(tcp[c].s2c) IN
       /\ tcp' = CloseClient([tcp EXCEPT ![c].s2c = Tail(@)], c)
       /\ calls' = [calls EXCEPT ![k].st = "returned",
                                 ![k].result = send_file_result(resp)]
  /\ UNCHANGED <<config, peers, objs, requests, udp, hist>>

\* "except socket.error", "except socket.timeout", "except:": connect, send
\* or receive failed, or the peer closed the connection without an answer;
\* -1 is returned and "finally: sock.close()"
send_file_except(k) ==
  /\ k \in DOMAIN calls
  /\ calls[k].st \in {"connect", "recv_reply", "recv_resp"}
  /\ tcp' = CloseClient(tcp, calls[k].sock)
  /\ calls' = [calls EXCEPT ![k].st = "returned", ![k].result = IntVal(-1),
                            ![k].exc = TRUE]
  /\ UNCHANGED <<config, peers, objs, requests, udp, hist>>

\* the files on A's host: a file of one byte or none, and one that is not
\* readable
LocalFiles(size) ==
  (<<Sep, "x", Sep, "f">> :> Stat(size, 12, 10, "644"))
    @@ (<<Sep, "x", Sep, "g">> :> Stat(1, 12, 10, "200"))

\* the calls of send_file: (location, file, dest_path, overwrite)
SendFileCalls ==
  {<<LocB, <<Sep, "x", Sep, "f">>, NoneStr, FALSE>>,
   <<LocB, <<Sep, "x", Sep, "f">>, NoneStr, TRUE>>,
   <<LocB, <<Sep, "x", Sep, "f">>, <<" ", "d">>, FALSE>>,
   <<LocB, <<Sep, "x", Sep, "f">>, <<Sep, "q">>, FALSE>>,
   <<LocB, <<Sep, "x", Sep, "g">>, NoneStr, FALSE>>,
   <<LocX, <<Sep, "x", Sep, "f">>, NoneStr, FALSE>>}

\* A and B know each other; B may have another file where A's file goes
InitSendFile ==
  /\ up = {"A", "B"}
  /\ secret = [i \in Inst |-> <<"s">>]
  /\ signature = [i \in Inst |-> SignatureOf(i, <<"s">>)]
  /\ version = [i \in Inst |-> "v1"]
  /\ Registered([i \in Inst |-> {}])
  /\ stream_peers = [i \in Inst |-> {}]
  /\ max_file_size = [i \in Inst |-> 0]
  /\ \E size \in {0, 1}, there \in BOOLEAN :
       files = [i \in Inst |->
                  IF i = "A" THEN LocalFiles(size)
                  ELSE IF i = "B" /\ there
                  THEN <<Sep, "p", Sep, "f">> :> Stat(1, 5, 5, "644")
                  ELSE EmptyDict]
  /\ peers = [i \in Inst |-> MeshPeers(i, up)]
  /\ objs = <<>>
  /\ requests = [i \in Inst |-> {}]
  /\ calls = EmptyDict
  /\ tcp = EmptyDict
  /\ udp = {}
  /\ hist = [NoHist EXCEPT !.udp_sent = [i \in Inst |-> 1]]

NextSendFile ==
  \/ \E a \in SendFileCalls : send_file_call("A", a[1], a[2], a[3], a[4])
  \/ \E k \in DOMAIN calls : send_file_connect(k)
  \/ \E k \in DOMAIN calls : send_file_recv_reply(k)
  \/ \E k \in DOMAIN calls : send_file_recv_resp(k)
  \/ \E k \in DOMAIN calls : send_file_except(k)
  \/ \E c \in DOMAIN tcp : tcp_task_recv(c)
  \/ \E c \in DOMAIN tcp : tcp_task_send_file(c)

SpecSendFile == InitSendFile /\ [][NextSendFile]_vars

\* call k + 1 sends again what call k sent: the same file to the same peer
\* with the same dest_path, after call k returned 0, and no call up to k was
\* broken off with its request on the way
SentAgain(k) ==
  /\ k \in DOMAIN calls
  /\ k + 1 \in DOMAIN calls
  /\ calls[k].result = IntVal(0)
  /\ calls[k + 1].location = calls[k].location
  /\ calls[k + 1].file = calls[k].file
  /\ calls[k + 1].dest_path = calls[k].dest_path
  /\ \A j \in 1..k : ~calls[j].exc

\* C21: when a send_file returned 0 and the same file, unchanged, is sent
\* again to the same peer with the same dest_path, with no request of a
\* broken-off call still on its way, the second call sends no data, leaves
\* the files of the peer as they were (until a later call changes them), and
\* returns 1 unless its connection fails
C21_SendTwice ==
  \A k \in DOMAIN calls :
    SentAgain(k) =>
      /\ calls[k + 1].sent = 0
      /\ k + 2 \notin DOMAIN calls
           => files[InstAt(calls[k].location)] = calls[k + 1].seen
      /\ (calls[k + 1].st = "returned" /\ ~calls[k + 1].exc)
           => calls[k + 1].result = IntVal(1)

\* a file of one byte went to "/p/d/f" on B with the reply 0, and the second
\* send_file of it returned 1
C21_Witness ==
  /\ SentAgain(1)
  /\ calls[1].dest_path = <<" ", "d">>
  /\ calls[1].sent = 1
  /\ calls[2].result = IntVal(1)
  /\ files["B"][<<Sep, "p", Sep, "d", Sep, "f">>] = Stat(1, 12, 10, "644")


\* the next message of c names another instance as its destination
WrongDst(c) ==
  /\ NextMsg(c).dst # NoLoc
  /\ NextMsg(c).dst # LocOf[InstAt(tcp[c].to)]

\* C23: a message whose dst is set and is not the location of the instance
\* that reads it is neither dispatched nor taken as the reply to a request:
\* the task closes the connection, sends nothing, and leaves the peer table,
\* the registries, _requests, the requests themselves and the files alone
C23_WrongDstDropped ==
  [][\A c \in DOMAIN tcp :
       (tcp_task_recv(c) /\ WrongDst(c))
         => /\ Dropped(c)
            /\ UNCHANGED <<settings, files, calls, udp>>
            /\ hist'.drained = hist.drained]_vars

\* A has turned down, for its dst, a message that carries A's auth, names A as
\* src and has the id of the locate A is waiting for; the locate still waits
C23_Witness ==
  /\ <<"A", "locate_rci", "dst">> \in hist.rejected
  /\ requests["A"] = {1}
  /\ objs[1].event = "clear"
  /\ calls[1].st = "wait"


\* a step of the worker of A's peer at l: the worker is resumed at its yield,
\* with what the socket operation gave or with its failure
req_proc(i, l) ==
  \/ req_proc_start(i, l)
  \/ req_proc_wake(i, l)
  \/ req_proc_connected(i, l)
  \/ req_proc_connect_failed(i, l)
  \/ req_proc_sent(i, l)
  \/ req_proc_send_failed(i, l)
  \/ req_proc_reply(i, l)
  \/ req_proc_recv_failed(i, l)

\* the pipeline with a scheduler that resumes every worker that can run, and
\* with socket operations that return or fail in the end
SpecPipeFair == SpecPipe /\ \A l \in Locs : WF_vars(req_proc("A", l))

\* send_req took request r for a peer that is in the peer table still
Accepted(r) ==
  /\ r \in DOMAIN calls
  /\ calls[r].ret = 0
  /\ objs[r].dst \in DOMAIN peers[calls[r].inst]

\* C24: a request that send_req accepted has its event set in the end unless
\* its peer is removed, whether connect fails, send or receive fail or time
\* out, or the reply comes; and a request whose event is set is in no queue
\* and in no worker's hands, so that no worker sets its event again
C24_EventuallySignalled ==
  /\ [](\A r \in DOMAIN calls :
          (calls[r].ret = 0 /\ objs[r].event = "set") => ~InPipeline(calls[r].inst, r))
  /\ \A r \in 1..(MaxReqs + 1) :
       Accepted(r) ~> (~Accepted(r) \/ objs[r].event = "set")

\* of two accepted requests one had its event set after a transport failure,
\* the other with the reply of the peer, and the peer is still there
C24_Witness ==
  \E r1, r2 \in DOMAIN calls :
    /\ Accepted(r1) /\ Accepted(r2)
    /\ r1 \in hist.failed /\ objs[r1].event = "set" /\ objs[r1].reply = None
    /\ r2 \notin hist.failed /\ objs[r2].event = "set" /\ objs[r2].reply = PeerReply(r2)


\* a transport failure of the worker of A's peer at l: connect, send_msg or
\* recv_msg raises
TransportFailure(l) ==
  \/ req_proc_connect_failed("A", l)
  \/ req_proc_send_failed("A", l)
  \/ req_proc_recv_failed("A", l)

\* what a transport failure at l leaves: the request in hand has no reply,
\* the connection is closed and forgotten, the peer is in the table, every
\* other request object and every other peer is as it was, and the worker
\* either waits with an empty queue or starts to connect for the request that
\* was at the head, the rest of the queue behind it
OnlyThatRequest(l) ==
  LET p == peers["A"][l] IN
    /\ objs'[p.req].reply = None
    /\ \A r \in DOMAIN objs : r # p.req => objs'[r] = objs[r]
    /\ DOMAIN peers'["A"] = DOMAIN peers["A"]
    /\ \A m \in DOMAIN peers["A"] : m # l => peers'["A"][m] = peers["A"][m]
    /\ peers'["A"][l].conn = 0
    /\ p.conn \in DOMAIN tcp' => ~tcp'[p.conn].copen
    /\ IF p.reqs = <<>>
       THEN peers'["A"][l].pc = "wait" /\ peers'["A"][l].reqs = <<>>
       ELSE /\ peers'["A"][l].pc = "connect"
            /\ peers'["A"][l].req = Head(p.reqs)
            /\ peers'["A"][l].reqs = Tail(p.reqs)
    /\ UNCHANGED <<requests, calls>>

\* C25: a transport failure touches the request in hand only (reply None,
\* conn None), the peer stays in the table with the rest of its queue in
\* order, and the worker connects anew for the next request; an entry leaves
\* the peer table in a step of remove only, which the terminate verb calls
C25_FailureIsLocal ==
  [][/\ \A l \in Locs : TransportFailure(l) => OnlyThatRequest(l)
     /\ DOMAIN peers'["A"] # DOMAIN peers["A"] => \E l \in Locs : remove("A", l)]_vars

\* the first request went out and its receive failed while the second was
\* queued, and the worker holds a new connection for the second one
C25_Witness ==
  /\ LocB \in DOMAIN peers["A"]
  /\ 1 \in hist.failed /\ 1 \notin hist.aborted
  /\ hist.transmitted["A"][LocB] = <<1>>
  /\ objs[1].reply = None /\ objs[1].event = "set"
  /\ peers["A"][LocB].pc = "send_msg" /\ peers["A"][LocB].req = 2
  /\ peers["A"][LocB].conn = 2
  /\ objs[2].reply = None /\ objs[2].event = "clear"


\* the worker of a streaming peer at l does not give up the connection it
\* holds: but for a transport failure and the removal of the peer, every step
\* leaves conn as it is and this end of the connection open
StreamKeeps(l) ==
  (/\ l \in DOMAIN peers["A"] /\ l \in DOMAIN peers'["A"]
   /\ peers["A"][l].stream /\ peers["A"][l].conn # 0
   /\ ~TransportFailure(l))
  => /\ peers'["A"][l].conn = peers["A"][l].conn
     /\ peers["A"][l].conn \in DOMAIN tcp'
     /\ tcp'[peers["A"][l].conn].copen

\* woken with a connection in hand the worker sends the next request over it
\* and opens none
StreamReuses(l) ==
  (/\ l \in DOMAIN peers["A"]
   /\ peers["A"][l].pc = "wait" /\ peers["A"][l].conn # 0
   /\ req_proc_wake("A", l))
  => /\ peers'["A"][l].pc = "send_msg"
     /\ peers'["A"][l].req = Head(peers["A"][l].reqs)
     /\ DOMAIN tcp' = DOMAIN tcp

----------------------------------------------------------------------------
(* The handshake on a host with two instances: A has the other asyncoro of *)
(* its host, at LocD, in its peer table, and B, which A does not know yet, *)
(* shakes hands with A while a user coroutine of A locates the RCI "n" of B. *)
(* B's ping (its answer to A's UDP ping) and B's pong (its answer to A's    *)
(* TCP ping) reach A whenever the network delivers them.                    *)

\* what B's side of the handshake sends to j: the ping of B's _udp_proc and
\* the pong of B's ping handler
Handshakes(j) ==
  {Serialize(NetRequest(name, PeerKwargs(LocOf["B"], signature["B"], version["B"]),
                        NoLoc, LocOf[j], peer_auth_code("B", signature[j]), "None"), 0) :
     name \in {"ping", "pong"}}

InitRelay ==
  /\ up = {"A", "B"}
  /\ secret = [i \in Inst |-> <<"s">>]
  /\ signature = [i \in Inst |-> <<i>>]
  /\ version = [i \in Inst |-> "v1"]
  /\ Registered([i \in Inst |-> IF i = "B" THEN {"n"} ELSE {}])
  /\ stream_peers = [i \in Inst |-> {}]
  /\ NoFiles
  /\ peers = [i \in Inst |->
                IF i = "A" THEN LocD :> Peer(AuthCode(<<"D">>, secret["A"]))
                ELSE EmptyDict]
  /\ objs = <<>>
  /\ requests = [i \in Inst |-> {}]
  /\ calls = EmptyDict
  /\ tcp = EmptyDict
  /\ udp = {}
  /\ hist = NoHist

NextRelay ==
  \/ \E msg \in Handshakes("A") : inject("A", msg)
  \/ \E c \in DOMAIN tcp : tcp_task_recv(c)
  \/ \E c \in DOMAIN tcp : tcp_task_pong_reply(c)
  \/ \E c \in DOMAIN tcp : tcp_task_pong_failed(c)
  \/ \E c \in DOMAIN tcp : tcp_task_ack_sent(c)
  \/ \E c \in DOMAIN tcp : tcp_task_drain(c)
  \/ \E c \in DOMAIN tcp : oneshot_failed(c)
  \/ locate("A", "locate_rci", "n", "t")
  \/ \E r \in DOMAIN calls : locate_loop(r)
  \/ \E r \in DOMAIN calls : locate_reply(r)
  \/ \E r \in DOMAIN calls : locate_timeout(r)
  \/ \E l \in Locs : req_proc_start("A", l)
  \/ \E l \in Locs : req_proc_wake("A", l)
  \/ \E l \in Locs : req_proc_connect_failed("A", l)

SpecRelay == InitRelay /\ [][NextRelay]_vars


----------------------------------------------------------------------------
(* Claims about concurrent handshake tasks, stated for SpecRelay *)

\* the pings the handlers of A have relayed for the peer P: the requests that
\* relay() made and handed to send_req
RelaysOf(P) ==
  {r \in 1..Len(objs) : objs[r].name = "ping" /\ objs[r].kwargs.peer = P}

\* the tasks of j that are sending the pending requests to P
DrainsOf(j, P) ==
  {c \in DOMAIN tcp : tcp[c].to = LocOf[j] /\ tcp[c].pc = "drain" /\ tcp[c].req_peer = P}

\* no step puts a new _Peer, with a new worker, in the place of one that is
\* in the table
InstalledOnce ==
  \A j \in up : \A P \in DOMAIN peers[j] :
    /\ P \in DOMAIN peers'[j]
    /\ peers'[j][P].auth = peers[j][P].auth
    /\ peers'[j][P].stream = peers[j][P].stream
    /\ peers'[j][P].pc = "start" => peers[j][P].pc = "start"

\* a task starts to send the pending requests to P in the step that installs
\* P and in no other, so that no two tasks ever drain to P
DrainedOnce ==
  \A c \in DOMAIN tcp' :
    (tcp'[c].pc = "drain" /\ (c \notin DOMAIN tcp \/ tcp[c].pc # "drain"))
      => LET j == InstAt(tcp'[c].to) IN
           /\ tcp'[c].req_peer \notin DOMAIN peers[j]
           /\ tcp'[c].req_peer \in DOMAIN peers'[j]
           /\ Cardinality(DrainsOf(j, tcp'[c].req_peer)) = 0

\* C26 as stated: with several handler tasks for the new peer B running at
\* once on A, B is installed once, and both the relay of B's ping to the other
\* instance of A's host and the drain of the pending requests happen at most
\* once
C26_RelayAndDrainOnce ==
  /\ [](Cardinality(RelaysOf(LocOf["B"])) <= 1)
  /\ [][InstalledOnce /\ DrainedOnce]_vars

\* C26 as the handlers have it: the test for "already in the table" that ends
\* a second task comes after the relay and before the installation, so B is
\* installed once and the pending requests are drained by the installing task
\* only, while every task that got its ack (ping handler) or sent it (pong
\* handler) relays B's ping, once each
C26_InstalledOnceRelayedPerTask ==
  /\ [](Cardinality(RelaysOf(LocOf["B"])) <= hist.injected)
  /\ [][InstalledOnce /\ DrainedOnce]_vars

\* B is in A's table, the pending locate has been sent to it, by one task, and
\* two pings for B have been relayed to the other instance of A's host
C26_Witness ==
  /\ LocOf["B"] \in DOMAIN peers["A"]
  /\ Cardinality(RelaysOf(LocOf["B"])) = 2
  /\ \E r \in requests["A"] : <<r, LocOf["B"]>> \in hist.drained
  /\ DrainsOf("A", LocOf["B"]) = {}


----------------------------------------------------------------------------
(* Installation and removal of peers: A has the other asyncoro of its host, *)
(* at LocD, in its peer table; B's ping and pong reach A, and so do        *)
(* terminate requests for B and for LocD. A may have been told to keep    *)
(* its connections to B, or to every asyncoro of B's host, open.            *)

\* what reaches j: the handshake of B, and the terminate requests that B and
\* the asyncoro at LocD send when they shut down
Installs(j) ==
  Handshakes(j) \cup
    {Request("terminate", "", l, NoLoc, LocOf[j], own_auth_code(j), 0) :
       l \in {LocOf["B"], LocD}}

InitInstall ==
  /\ up = {"A", "B"}
  /\ secret = [i \in Inst |-> <<"s">>]
  /\ signature = [i \in Inst |-> <<i>>]
  /\ version = [i \in Inst |-> "v1"]
  /\ Registered([i \in Inst |-> {}])
  /\ \E sp \in {{}, {LocOf["B"]}, {Location("h2", 0)}} :
       stream_peers = [i \in Inst |-> IF i = "A" THEN sp ELSE {}]
  /\ NoFiles
  /\ peers = [i \in Inst |->
                IF i = "A" THEN LocD :> Peer(AuthCode(<<"D">>, secret["A"]))
                ELSE EmptyDict]
  /\ objs = <<>>
  /\ requests = [i \in Inst |-> {}]
  /\ calls = EmptyDict
  /\ tcp = EmptyDict
  /\ udp = {}
  /\ hist = Coro_req_proc(NoHist, "A", LocD)

NextInstall ==
  \/ \E msg \in Installs("A") : inject("A", msg)
  \/ \E c \in DOMAIN tcp : tcp_task_recv(c)
  \/ \E c \in DOMAIN tcp : tcp_task_pong_reply(c)
  \/ \E c \in DOMAIN tcp : tcp_task_pong_failed(c)
  \/ \E c \in DOMAIN tcp : tcp_task_ack_sent(c)
  \/ \E c \in DOMAIN tcp : oneshot_failed(c)
  \/ \E l \in Locs : req_proc_start("A", l)
  \/ \E l \in Locs : req_proc_wake("A", l)
  \/ \E l \in Locs : req_proc_connect_failed("A", l)

SpecInstall == InitInstall /\ [][NextInstall]_vars

\* the workers of j for the location l that were started and not terminated
LiveWorkers(j, l) == hist.started[j][l] - hist.terminated[j][l]

\* C27: every key of the peer table has one _Peer, whose one worker runs, and
\* no worker runs for a location that is not in the table: tasks that shake
\* hands at once start no second worker for a location, and remove ends the
\* worker of the entry it pops
C27_OneWorkerPerEntry ==
  \A j \in up : \A l \in Locs :
    IF l \in DOMAIN peers[j]
    THEN LiveWorkers(j, l) = 1 /\ peers[j][l].pc # "raised"
    ELSE LiveWorkers(j, l) = 0

\* A and B have installed each other, each with one worker, and a terminate
\* request has removed A's entry for LocD and ended its worker
C27_Witness ==
  /\ LocOf["B"] \in DOMAIN peers["A"]
  /\ LocD \notin DOMAIN peers["A"]
  /\ hist.started["A"][LocOf["B"]] = 1
  /\ hist.terminated["A"][LocD] = 1
  /\ LocOf["A"] \in DOMAIN peers["B"]


\* a step of a handler task of the handshake: the peer is found (relay,
\* installation, the list of pending requests) or a pending request is sent
HandshakeStep(c) ==
  tcp_task_pong_reply(c) \/ tcp_task_ack_sent(c) \/ tcp_task_drain(c)

\* the copy that the task of connection c sends in this step: it is on a new
\* connection to the new peer, with the id and the dst of the request it was
\* made from and with the auth of the new peer
CopyStamped(c) ==
  LET j == InstAt(tcp[c].to)
      P == tcp[c].req_peer
      r == Head(tcp[c].pending).obj IN
    \E d \in DOMAIN tcp' \ DOMAIN tcp :
      /\ tcp'[d].to = P
      /\ Len(tcp'[d].c2s) = 1
      /\ tcp'[d].c2s[1].id = objs[r].id
      /\ tcp'[d].c2s[1].name = objs[r].name
      /\ tcp'[d].c2s[1].dst = objs[r].dst
      /\ tcp'[d].c2s[1].auth = peers[j][P].auth

\* C28: the handlers that install a peer and send it the pending requests
\* leave _requests as it is, keys and entries (id, event, dst, auth and the
\* rest); the auth of the new peer goes into the copy that is sent
C28_DrainKeepsRequests ==
  [][\A c \in DOMAIN tcp :
       /\ HandshakeStep(c) =>
            /\ requests' = requests
            /\ \A r \in 1..Len(objs) : objs'[r] = objs[r]
       /\ tcp_task_drain(c) => CopyStamped(c)]_vars

\* the locate of A was sent to B when B was installed, B's reply was taken for
\* it, and the request of _requests does not have B's auth
C28_Witness ==
  /\ <<1, LocOf["B"]>> \in hist.drained
  /\ objs[1].name = "locate_rci"
  /\ objs[1].event = "set"
  /\ objs[1].reply = RciHandle("n", LocOf["B"])
  /\ objs[1].auth # peers["A"][LocOf["B"]].auth


\* the step installs the peer P at j
Installed(j, P) == P \notin DOMAIN peers[j] /\ P \in DOMAIN peers'[j]

\* C29: a peer P that the ping or the pong handler installs has its stream
\* flag set if and only if _stream_peers has (P.addr, P.port) or (P.addr, 0)
C29_StreamFlagAtInstall ==
  [][\A j \in up : \A P \in Locs :
       Installed(j, P) =>
         (peers'[j][P].stream <=>
            \/ Location(P.addr, P.port) \in stream_peers[j]
            \/ Location(P.addr, 0) \in stream_peers[j])]_vars

\* A, whose _stream_peers has every port of B's host, has installed B as a
\* stream peer, and B, which has no stream peers, has installed A as none
C29_Witness ==
  /\ stream_peers["A"] = {Location("h2", 0)}
  /\ LocOf["B"] \in DOMAIN peers["A"]
  /\ peers["A"][LocOf["B"]].stream
  /\ LocOf["A"] \in DOMAIN peers["B"]
  /\ ~peers["B"][LocOf["A"]].stream


\* the auth of the next message of connection c is not the auth code of the
\* instance that reads it
ForeignAuth(c) == NextMsg(c).auth # own_auth_code(InstAt(tcp[c].to))

\* the step leaves the pending asynchronous requests of j alone: _requests has
\* the entries it had, with the replies and the events they had
PendingUntouched(j) ==
  /\ requests'[j] = requests[j]
  /\ \A r \in requests[j] :
       objs'[r].reply = objs[r].reply /\ objs'[r].event = objs[r].event

\* C31: a message whose auth is not the instance's own auth code, whatever its
\* name (ping too), src and id, resolves no pending request: it removes no
\* entry of _requests, sets no reply and no event
C31_ForeignAuthResolvesNothing ==
  [][\A c \in DOMAIN tcp :
       (tcp_task_recv(c) /\ ForeignAuth(c)) => PendingUntouched(InstAt(tcp[c].to))]_vars


----------------------------------------------------------------------------
(* A peer that came back: A's peer table has an entry for B's location that *)
(* was made when an earlier asyncoro ran there, with another signature, and *)
(* that no terminate request has removed. B shakes hands with A.            *)

InitStale ==
  /\ up = {"A", "B"}
  /\ secret = [i \in Inst |-> <<"s">>]
  /\ signature = [i \in Inst |-> <<i>>]
  /\ version = [i \in Inst |-> "v1"]
  /\ Registered([i \in Inst |-> {}])
  /\ stream_peers = [i \in Inst |-> {}]
  /\ NoFiles
  /\ peers = [i \in Inst |->
                IF i = "A"
                THEN (LocD :> Peer(AuthCode(<<"D">>, secret["A"])))
                       @@ (LocOf["B"] :> Peer(AuthCode(<<"b">>, secret["A"])))
                ELSE EmptyDict]
  /\ objs = <<>>
  /\ requests = [i \in Inst |-> {}]
  /\ calls = EmptyDict
  /\ tcp = EmptyDict
  /\ udp = {}
  /\ hist = Coro_req_proc(Coro_req_proc(NoHist, "A", LocD), "A", LocOf["B"])

SpecStale == InitStale /\ [][NextInstall]_vars

\* the task of connection c ends its handshake with an ack in this step: the
\* ping handler reads the ack to its pong, the pong handler has sent its ack
AckCompletes(c) ==
  \/ /\ tcp_task_pong_reply(c)
     /\ Head(tcp[tcp[c].sock].s2c) = Bytes("ack")
  \/ tcp_task_ack_sent(c)

\* C32: when a handshake with P ends with an ack, the entry for P in the peer
\* table has the auth code made from the signature P gave in that handshake,
\* also when the table had an entry for P with another auth code
C32_EntryHasPresentedAuth ==
  [][\A c \in DOMAIN tcp :
       AckCompletes(c) =>
         LET j == InstAt(tcp[c].to)
             P == tcp[c].req_peer IN
           /\ P \in DOMAIN peers'[j]
           /\ peers'[j][P].auth = peer_auth_code(j, tcp[c].req.kwargs.signature)]_vars


----------------------------------------------------------------------------
(* Timed out and removed while queued, stated for SpecPipe *)

\* r has not gone out to its peer and its verb has not been executed there
NeverSent(r) ==
  /\ r \notin Range(hist.transmitted[calls[r].inst][objs[r].dst])
  /\ r \notin Range(hist.executed[objs[r].dst])

\* C33: a request whose caller got alarm_value from _sync_reply while the
\* request was still in the queue of the peer is not transmitted afterwards,
\* and the peer never executes its verb
C33_TimedOutNotSent ==
  \A r \in hist.expired : NeverSent(r)


\* C34: remove(location) of a peer whose queue holds requests the worker has
\* not popped leaves each of them with its event set and reply None, so that
\* a caller that waits in _sync_reply for one of them, with whatever timeout,
\* resumes
C34_RemoveSignalsQueued ==
  [][\A l \in Locs :
       remove("A", l) =>
         \A r \in Range(peers["A"][l].reqs) :
           objs'[r].event = "set" /\ objs'[r].reply = None]_vars


----------------------------------------------------------------------------
(* Whose registration unregister removes, stated for SpecRegister *)

\* the RCI k of A holds a registration: _rcis maps its name to it
HoldsRegistration(k) ==
  /\ RCIs["A"][k]._name \in DOMAIN rci_of["A"]
  /\ rci_of["A"][RCIs["A"][k]._name] = k

\* C35: unregister removes a registration of the RCI it is called on and no
\* other: for an RCI that holds none (its register returned -1, or it never
\* registered) it returns -1 and leaves _rcis as it is
C35_UnregisterOwnOnly ==
  [][\A k \in DOMAIN RCIs["A"] :
       (unregister("A", k) /\ ~HoldsRegistration(k))
         => /\ rci_of' = rci_of
            /\ hist'.rci_call.ret = -1]_vars


----------------------------------------------------------------------------
(* AsynCoro.peer(node, udp_port, tcp_port, stream_send): user coroutines of *)
(* A name B's host as a peer, for one port or for all, to be streamed to or *)
(* not, and the pings that peer() sends start the handshake with B.         *)

MaxPeerCalls == 2

\* the entries of _Peer.peers of i that the call is about: those of the node,
\* at the port given or, with port 0, at any
peer_matches(i, node, tcp_port) ==
  {l \in DOMAIN peers[i] : l.addr = node /\ (tcp_port = 0 \/ tcp_port = l.port)}

\* the stream flags of the _Peers after the call
peer_flags(i, node, tcp_port, stream_send) ==
  [peers EXCEPT ![i] =
     [l \in DOMAIN @ |->
        IF l \in peer_matches(i, node, tcp_port)
        THEN [@[l] EXCEPT !.stream = stream_send] ELSE @[l]]]

\* _stream_peers after the call: the key (node, tcp_port) is set, or it is
\* popped together with the keys of the entries the call is about
peer_stream_peers(i, node, tcp_port, stream_send) ==
  [stream_peers EXCEPT ![i] =
     IF stream_send THEN @ \cup {Location(node, tcp_port)}
     ELSE (@ \ peer_matches(i, node, tcp_port)) \ {Location(node, tcp_port)}]

\* the whole call: flags and _stream_peers, the UDP ping to the node, and with
\* a tcp_port the TCP ping to that port, over a connection of its own; a
\* failure to send either is passed over
peer(i, node, tcp_port, stream_send) ==
  /\ i \in up
  /\ hist.peer_calls < MaxPeerCalls
  /\ peers' = peer_flags(i, node, tcp_port, stream_send)
  /\ stream_peers' = peer_stream_peers(i, node, tcp_port, stream_send)
  /\ udp' = udp \cup {[to |-> j, info |-> PingInfo(i)] :
                        j \in {k \in up \ {i} : LocOf[k].addr = node}}
  /\ LET dst == Location(node, tcp_port)
         req == NetRequest("ping", PeerKwargs(LocOf[i], signature[i], version[i]),
                           NoLoc, dst, NoneStr, "None") IN
       tcp' = IF tcp_port # 0 /\ Listening(dst) /\ FreeConns # {}
              THEN (NextConn :> OneShot(i, dst, Serialize(req, 0))) @@ tcp
              ELSE tcp
  /\ hist' = [hist EXCEPT !.peer_calls = @ + 1]
  /\ UNCHANGED <<up, secret, signature, version, rci_of, RCIs, max_file_size, files,
                 objs, requests, calls>>

InitPeer ==
  /\ up = {"A", "B"}
  /\ secret = [i \in Inst |-> <<"s">>]
  /\ signature = [i \in Inst |-> <<i>>]
  /\ version = [i \in Inst |-> "v1"]
  /\ Registered([i \in Inst |-> {}])
  /\ stream_peers = [i \in Inst |-> {}]
  /\ NoFiles
  /\ peers = [i \in Inst |-> EmptyDict]
  /\ objs = <<>>
  /\ requests = [i \in Inst |-> {}]
  /\ calls = EmptyDict
  /\ tcp = EmptyDict
  /\ udp = {}
  /\ hist = NoHist

NextPeer ==
  \/ \E tcp_port \in {0, 1} : \E stream_send \in BOOLEAN :
       peer("A", "h2", tcp_port, stream_send)
  \/ \E d \in udp : udp_recv(d)
  \/ \E c \in DOMAIN tcp : tcp_task_recv(c)
  \/ \E c \in DOMAIN tcp : tcp_task_pong_reply(c)
  \/ \E c \in DOMAIN tcp : tcp_task_pong_failed(c)
  \/ \E c \in DOMAIN tcp : tcp_task_ack_sent(c)
  \/ \E c \in DOMAIN tcp : oneshot_failed(c)

SpecPeer == InitPeer /\ [][NextPeer]_vars

\* C36: whatever peer(...) calls and installations there were, the stream flag
\* of every installed peer is set if and only if _stream_peers has its
\* (addr, port) or (addr, 0): the flag it would get if it were installed now
C36_StreamFlagFollowsStreamPeers ==
  \A j \in up : \A P \in DOMAIN peers[j] :
    peers[j][P].stream <=>
      \/ Location(P.addr, P.port) \in stream_peers[j]
      \/ Location(P.addr, 0) \in stream_peers[j]


----------------------------------------------------------------------------
(* Replies and the requests they answer, stated for SpecPipe *)

\* what the connection of the peer at l holds for the worker to read: nothing
\* while it has nothing sent, and at most the answer to the request in hand
\* once it has
NothingStale(l) ==
  LET p == peers["A"][l] IN
    /\ p.pc = "send_msg" => tcp[p.conn].s2c = <<>> /\ tcp[p.conn].c2s = <<>>
    /\ p.pc = "recv_msg" => tcp[p.conn].s2c \in {<<>>, <<PeerReply(p.req)>>}

\* C37: the reply the worker stores in a request is the response the peer
\* made for that very request, or None: a connection over which a request
\* failed or timed out is closed before the next request is sent, so the
\* connection the worker sends on holds no answer to an earlier request
C37_ReplyAnswersItsRequest ==
  /\ \A r \in DOMAIN objs : objs[r].reply \in {None, PeerReply(r)}
  /\ \A l \in DOMAIN peers["A"] : NothingStale(l)

\* a streaming peer: request 1 was sent and failed, the peer served it all the
\* same, and request 2 got its own answer
C37_Witness ==
  /\ LocB \in DOMAIN peers["A"]
  /\ peers["A"][LocB].stream
  /\ 1 \in hist.failed
  /\ 1 \in Range(hist.transmitted["A"][LocB])
  /\ 1 \in Range(hist.executed[LocB])
  /\ 2 \in DOMAIN objs
  /\ objs[2].reply = PeerReply(2)


----------------------------------------------------------------------------
(* The worker's wait on reqs_pending, stated for SpecPipe *)

\* C38: the worker never pops from an empty queue and never misses a wake-up,
\* however send_req calls fall between its steps: popleft never raises, a
\* worker that waits with reqs_pending set (about to resume) has a request
\* queued, and a worker that waits with reqs_pending cleared has none
C38_WakeUpMatchesQueue ==
  \A l \in DOMAIN peers["A"] :
    LET p == peers["A"][l] IN
      /\ p.pc # "raised"
      /\ (p.pc = "wait" /\ p.reqs_pending) => p.reqs # <<>>
      /\ (p.pc = "wait" /\ ~p.reqs_pending) => p.reqs = <<>>

\* the worker went to wait after request 1 and request 2 was queued since:
\* reqs_pending is set and the worker is about to resume
C38_Witness ==
  /\ LocB \in DOMAIN peers["A"]
  /\ peers["A"][LocB].pc = "wait"
  /\ peers["A"][LocB].reqs_pending
  /\ peers["A"][LocB].reqs = <<2>>
  /\ 1 \in Range(hist.transmitted["A"][LocB])

====
